---- MODULE Spec2Model ----
(***************************************************************************)
(* Notes pipeline of the TalkFlow backend: the transcript store written by *)
(* the STT service (src/stt/main.py), and the notes service                *)
(* (src/notes/main.py): pattern extractors, theme clusterer, summarizer,   *)
(* the orchestrator process_meeting_notes and the artifact cache.          *)
(*                                                                         *)
(* Text is a sequence of one-character strings, so that slicing, case      *)
(* folding, splitting and regular-expression matching are computed as the  *)
(* Python code computes them.                                              *)
(***************************************************************************)
EXTENDS Integers, Sequences, FiniteSets, TLC

----------------------------------------------------------------------------
(* Bounds of the model *)

\* process_meeting_notes background tasks over the whole behaviour
MaxRuns == 2
\* store_transcript calls over the whole behaviour
MaxSegs == 2
\* clock advances over the whole behaviour
MaxTicks == 2
\* stages that hit an internal error on the transcripts of one behaviour
MaxFaults == 1

(* Program constants *)

\* redis_client.setex(notes_key, 86400, ...)
NOTES_TTL == 86400
\* redis_client.setex(key, 3600, ...) and expire(list_key, 3600)
TRANSCRIPT_TTL == 3600
\* title slices [:100]
TITLE_LEN == 100
\* preview slices [:50] of the basic summary
PREVIEW_LEN == 50
\* important_notes[:10], unique_decisions[:10]
TOP_NOTES == 10
\* action_items[:15]
TOP_ACTIONS == 15
\* extract_themes_from_transcripts(transcripts, num_themes = 5)
NUM_THEMES == 5
\* word_count > 20
LONG_WORDS == 20
\* full_transcript[:8000]
PROMPT_LEN == 8000
\* fixed-point scale of the similarities (1.0 is SCALE)
SCALE == 100

Meetings == {<<"m", "1">>}

\* Python's None, and a present value, as sequences of length 0 and 1
None == <<>>
Some(v) == <<v>>

----------------------------------------------------------------------------
(* Python str operations on sequences of characters *)

UPPER == <<"A","B","C","D","E","F","G","H","I","J","K","L","M",
           "N","O","P","Q","R","S","T","U","V","W","X","Y","Z">>
LOWER == <<"a","b","c","d","e","f","g","h","i","j","k","l","m",
           "n","o","p","q","r","s","t","u","v","w","x","y","z">>
DIGITS == {"0","1","2","3","4","5","6","7","8","9"}
LETTERS == {UPPER[i] : i \in 1..26} \cup {LOWER[i] : i \in 1..26}
\* the class \w and the class \s
WORD_CHARS == LETTERS \cup DIGITS \cup {"_"}
SPACE_CHARS == {" ", "\t", "\n", "\r"}

\* str.lower() of one character
LOWER_OF == [c \in {UPPER[i] : i \in 1..26} |-> LOWER[CHOOSE i \in 1..26 : UPPER[i] = c]]
lower_char(c) == IF c \in DOMAIN LOWER_OF THEN LOWER_OF[c] ELSE c

\* str.lower()
lower(s) == [i \in 1..Len(s) |-> lower_char(s[i])]

\* s[:n]
prefix(s, n) == SubSeq(s, 1, IF Len(s) < n THEN Len(s) ELSE n)

\* s.strip()
strip(s) ==
    LET keep == {i \in 1..Len(s) : s[i] \notin SPACE_CHARS}
    IN  IF keep = {} THEN <<>>
        ELSE SubSeq(s, CHOOSE i \in keep : \A j \in keep : i <= j,
                       CHOOSE i \in keep : \A j \in keep : i >= j)

\* needle in hay, starting at index p
occurs_at(needle, hay, p) ==
    /\ p >= 1
    /\ p + Len(needle) - 1 <= Len(hay)
    /\ \A i \in 1..Len(needle) : hay[p + i - 1] = needle[i]

\* needle in hay
contains(hay, needle) == \E p \in 1..(Len(hay) + 1) : occurs_at(needle, hay, p)

\* s.count(c) for a single character c
count_char(s, c) == Cardinality({i \in 1..Len(s) : s[i] = c})

\* s.split(sep) for a single character sep
RECURSIVE split_from(_, _, _)
split_from(s, sep, p) ==
    LET hits == {i \in p..Len(s) : s[i] = sep}
    IN  IF hits = {} THEN << SubSeq(s, p, Len(s)) >>
        ELSE LET q == CHOOSE i \in hits : \A j \in hits : i <= j
             IN  << SubSeq(s, p, q - 1) >> \o split_from(s, sep, q + 1)

split(s, sep) == split_from(s, sep, 1)

\* len(s.split()): the number of maximal runs of non-whitespace
word_count(s) ==
    Cardinality({i \in 1..Len(s) :
        /\ s[i] \notin SPACE_CHARS
        /\ (i = 1 \/ s[i - 1] \in SPACE_CHARS)})

\* sep.join(parts)
RECURSIVE join(_, _)
join(sep, parts) ==
    IF parts = <<>> THEN <<>>
    ELSE IF Len(parts) = 1 THEN parts[1]
    ELSE parts[1] \o sep \o join(sep, Tail(parts))

----------------------------------------------------------------------------
(* Python re on sequences of characters.  A pattern \b(?:a1|a2|...)\b is   *)
(* the sequence of its alternatives in the order the engine tries them     *)
(* (the longer reading of an optional character first), each a lower-case  *)
(* literal; matching is done with re.IGNORECASE.                           *)

is_word(s, i) == i >= 1 /\ i <= Len(s) /\ s[i] \in WORD_CHARS

\* \b holds between s[p-1] and s[p]
word_boundary(s, p) == is_word(s, p - 1) # is_word(s, p)

\* the literal matches at p, ignoring case, with \b on both sides
literal_at(lit, s, p) ==
    /\ word_boundary(s, p)
    /\ p + Len(lit) - 1 <= Len(s)
    /\ word_boundary(s, p + Len(lit))
    /\ \A i \in 1..Len(lit) : lower_char(s[p + i - 1]) = lit[i]

\* length of the match of the pattern at p, 0 when there is none
match_at(pattern, s, p) ==
    IF ~word_boundary(s, p) THEN 0
    ELSE LET ok == {k \in 1..Len(pattern) : literal_at(pattern[k], s, p)}
         IN  IF ok = {} THEN 0
             ELSE Len(pattern[CHOOSE k \in ok : \A j \in ok : k <= j])

\* re.search(pattern, s, re.IGNORECASE) is not None
re_search(pattern, s) == \E p \in 1..Len(s) : match_at(pattern, s, p) > 0

\* re.finditer(pattern, s, re.IGNORECASE): the matched texts (match.group()),
\* leftmost first, non-overlapping
\* the first position from p on where \b holds, Len(s) + 1 when there is none
next_boundary(s, p) ==
    CHOOSE x \in p..(Len(s) + 1) :
        /\ x <= Len(s) => word_boundary(s, x)
        /\ \A y \in p..(x - 1) : ~word_boundary(s, y)

RECURSIVE finditer_from(_, _, _)
finditer_from(pattern, s, p) ==
    IF p > Len(s) THEN <<>>
    ELSE LET n == match_at(pattern, s, p)
         IN  IF n = 0 THEN finditer_from(pattern, s, next_boundary(s, p + 1))
             ELSE << SubSeq(s, p, p + n - 1) >> \o finditer_from(pattern, s, p + n)

re_finditer(pattern, s) == finditer_from(pattern, s, 1)

\* the end of the run of characters of class cls that starts at p (p - 1 when
\* s[p] is not in the class): the greedy cls+
RECURSIVE run_end(_, _, _)
run_end(s, p, cls) ==
    IF p <= Len(s) /\ s[p] \in cls THEN run_end(s, p + 1, cls) ELSE p - 1

\* re.search(r'\b(\w+) <tail>\b', s, re.IGNORECASE): group(1) of the leftmost
\* match as Some(word), or None.  tail is a lower-case literal.
search_word_before(tail, s) ==
    LET hit(p) ==
            /\ is_word(s, p) /\ ~is_word(s, p - 1)
            /\ LET q == run_end(s, p, WORD_CHARS)
               IN  /\ q + 1 <= Len(s) /\ s[q + 1] = " "
                   /\ literal_at(tail, s, q + 2)
        ps == {p \in 1..Len(s) : hit(p)}
    IN  IF ps = {} THEN None
        ELSE LET p == CHOOSE x \in ps : \A y \in ps : x <= y
             IN  Some(SubSeq(s, p, run_end(s, p, WORD_CHARS)))

\* re.search(r'\b<head> (\w+)\b', s, re.IGNORECASE): group(1) or None
search_word_after(head, s) ==
    LET n == Len(head)
        hit(p) ==
            /\ p + n <= Len(s)
            /\ \A i \in 1..n : lower_char(s[p + i - 1]) = head[i]
            /\ word_boundary(s, p)
            /\ s[p + n] = " "
            /\ is_word(s, p + n + 1)
        ps == {p \in 1..Len(s) : hit(p)}
    IN  IF ps = {} THEN None
        ELSE LET p == CHOOSE x \in ps : \A y \in ps : x <= y
             IN  Some(SubSeq(s, p + n + 1, run_end(s, p + n + 1, WORD_CHARS)))

\* re.search(r'\b<head> (\w+ \d+)\b', s, re.IGNORECASE): group(1) or None
search_date_after(head, s) ==
    LET n == Len(head)
        wend(p) == run_end(s, p + n + 1, WORD_CHARS)
        dend(p) == run_end(s, wend(p) + 2, DIGITS)
        hit(p) ==
            /\ p + n <= Len(s)
            /\ \A i \in 1..n : lower_char(s[p + i - 1]) = head[i]
            /\ word_boundary(s, p)
            /\ s[p + n] = " "
            /\ is_word(s, p + n + 1)
            /\ wend(p) + 1 <= Len(s) /\ s[wend(p) + 1] = " "
            /\ dend(p) >= wend(p) + 2
            /\ ~is_word(s, dend(p) + 1)
        ps == {p \in 1..Len(s) : hit(p)}
    IN  IF ps = {} THEN None
        ELSE LET p == CHOOSE x \in ps : \A y \in ps : x <= y
             IN  Some(SubSeq(s, p + n + 1, dend(p)))

----------------------------------------------------------------------------
(* Pattern tables of the extractors *)

\* important_patterns of extract_important_notes
important_patterns ==
    << << <<"i", "m", "p", "o", "r", "t", "a", "n", "t">>, <<"c", "r", "u", "c", "i", "a", "l">>, <<"c", "r", "i", "t", "i", "c", "a", "l">>, <<"k", "e", "y">>, <<"e", "s", "s", "e", "n", "t", "i", "a", "l">>, <<"v", "i", "t", "a", "l">>, <<"s", "i", "g", "n", "i", "f", "i", "c", "a", "n", "t">> >>,
       << <<"r", "e", "m", "e", "m", "b", "e", "r">>, <<"n", "o", "t", "e">>, <<"h", "i", "g", "h", "l", "i", "g", "h", "t">>, <<"e", "m", "p", "h", "a", "s", "i", "z", "e">>, <<"s", "t", "r", "e", "s", "s">> >>,
       << <<"a", "c", "t", "i", "o", "n">>, <<"t", "o", "d", "o">>, <<"t", "a", "s", "k">>, <<"f", "o", "l", "l", "o", "w", "-", "u", "p">>, <<"f", "o", "l", "l", "o", "w", " ", "u", "p">>, <<"f", "o", "l", "l", "o", "w", "u", "p">>, <<"n", "e", "x", "t", " ", "s", "t", "e", "p", "s">>, <<"n", "e", "x", "t", " ", "s", "t", "e", "p">> >>,
       << <<"d", "e", "c", "i", "s", "i", "o", "n">>, <<"d", "e", "c", "i", "d", "e">>, <<"a", "g", "r", "e", "e", "d">>, <<"a", "g", "r", "e", "e">>, <<"c", "o", "n", "c", "l", "u", "d", "e", "d">>, <<"c", "o", "n", "c", "l", "u", "d", "e">> >>,
       << <<"p", "r", "o", "b", "l", "e", "m">>, <<"i", "s", "s", "u", "e">>, <<"c", "o", "n", "c", "e", "r", "n">>, <<"c", "h", "a", "l", "l", "e", "n", "g", "e">>, <<"r", "i", "s", "k">> >>,
       << <<"s", "o", "l", "u", "t", "i", "o", "n">>, <<"r", "e", "s", "o", "l", "v", "e">>, <<"f", "i", "x">>, <<"a", "d", "d", "r", "e", "s", "s">> >>,
       << <<"d", "e", "a", "d", "l", "i", "n", "e">>, <<"d", "u", "e">>, <<"s", "c", "h", "e", "d", "u", "l", "e">>, <<"t", "i", "m", "e", "l", "i", "n", "e">> >>,
       << <<"b", "u", "d", "g", "e", "t">>, <<"c", "o", "s", "t">>, <<"p", "r", "i", "c", "e">>, <<"e", "x", "p", "e", "n", "s", "e">> >> >>

\* decision_patterns of extract_decisions
decision_patterns ==
    << << <<"w", "e", " ", "d", "e", "c", "i", "d", "e", "d">>, <<"w", "e", " ", "a", "g", "r", "e", "e", "d">>, <<"w", "e", " ", "c", "o", "n", "c", "l", "u", "d", "e", "d">>, <<"w", "e", " ", "d", "e", "t", "e", "r", "m", "i", "n", "e", "d">> >>,
       << <<"d", "e", "c", "i", "s", "i", "o", "n">>, <<"a", "g", "r", "e", "e", "d">>, <<"a", "g", "r", "e", "e">>, <<"c", "o", "n", "c", "l", "u", "d", "e", "d">>, <<"c", "o", "n", "c", "l", "u", "d", "e">>, <<"d", "e", "t", "e", "r", "m", "i", "n", "e", "d">> >>,
       << <<"l", "e", "t", "'", "s">>, <<"w", "e", "'", "l", "l">>, <<"w", "e", " ", "w", "i", "l", "l">>, <<"w", "e", " ", "s", "h", "o", "u", "l", "d">> >>,
       << <<"a", "p", "p", "r", "o", "v", "e", "d">>, <<"r", "e", "j", "e", "c", "t", "e", "d">>, <<"a", "c", "c", "e", "p", "t", "e", "d">>, <<"d", "e", "n", "i", "e", "d">> >>,
       << <<"f", "i", "n", "a", "l">>, <<"f", "i", "n", "a", "l", "i", "z", "e", "d">>, <<"s", "e", "t", "t", "l", "e", "d">>, <<"r", "e", "s", "o", "l", "v", "e", "d">> >> >>

\* action_patterns of extract_action_items
action_patterns ==
    << << <<"a", "c", "t", "i", "o", "n">>, <<"t", "o", "d", "o">>, <<"t", "a", "s", "k">>, <<"a", "s", "s", "i", "g", "n", "m", "e", "n", "t">> >>,
       << <<"f", "o", "l", "l", "o", "w", "-", "u", "p">>, <<"f", "o", "l", "l", "o", "w", " ", "u", "p">>, <<"f", "o", "l", "l", "o", "w", "u", "p">>, <<"n", "e", "x", "t", " ", "s", "t", "e", "p", "s">>, <<"n", "e", "x", "t", " ", "s", "t", "e", "p">> >>,
       << <<"w", "i", "l", "l">>, <<"s", "h", "o", "u", "l", "d">>, <<"n", "e", "e", "d", " ", "t", "o">>, <<"h", "a", "v", "e", " ", "t", "o">>, <<"m", "u", "s", "t">> >>,
       << <<"b", "y">>, <<"b", "e", "f", "o", "r", "e">>, <<"u", "n", "t", "i", "l">>, <<"d", "e", "a", "d", "l", "i", "n", "e">> >>,
       << <<"r", "e", "s", "p", "o", "n", "s", "i", "b", "l", "e">>, <<"a", "s", "s", "i", "g", "n", "e", "d">>, <<"o", "w", "n", "e", "r">> >> >>

T_WILL == <<"w", "i", "l", "l">>
T_SHOULD == <<"s", "h", "o", "u", "l", "d">>
T_ASSIGNED_TO == <<"a", "s", "s", "i", "g", "n", "e", "d", " ", "t", "o">>
T_IS_RESPONSIBLE == <<"i", "s", " ", "r", "e", "s", "p", "o", "n", "s", "i", "b", "l", "e">>
T_BY == <<"b", "y">>
T_BEFORE == <<"b", "e", "f", "o", "r", "e">>
T_UNTIL == <<"u", "n", "t", "i", "l">>
T_DEADLINE == <<"d", "e", "a", "d", "l", "i", "n", "e">>

ELLIPSIS == <<".", ".", ".">>

\* s[:TITLE_LEN] + ('...' if len(measured) > TITLE_LEN else '')
title_of(s, measured) ==
    prefix(s, TITLE_LEN) \o (IF Len(measured) > TITLE_LEN THEN ELLIPSIS ELSE <<>>)

\* list.sort(key = ..., reverse = True): stable, descending by keys[i]
stable_sort_desc(items, keys) ==
    LET n == Len(items)
        pos(i) == 1 + Cardinality({j \in 1..n : keys[j] > keys[i]})
                    + Cardinality({j \in 1..(i - 1) : keys[j] = keys[i]})
    IN  [p \in 1..n |-> items[CHOOSE i \in 1..n : pos(i) = p]]

\* the concatenation of a sequence of sequences
RECURSIVE flatten(_)
flatten(ss) == IF ss = <<>> THEN <<>> ELSE Head(ss) \o flatten(Tail(ss))

\* the sum of a sequence of integers
RECURSIVE sum(_)
sum(xs) == IF xs = <<>> THEN 0 ELSE Head(xs) + sum(Tail(xs))

----------------------------------------------------------------------------
(* extract_important_notes *)

\* importance_score as it would be as a density: a hundred times the
\* score for each word of the content
importance_score_by_density(content) ==
    (100 * (sum([k \in 1..Len(important_patterns) |->
                    Len(re_finditer(important_patterns[k], content))])
            + count_char(content, "?")
            + count_char(content, "!")
            + (IF word_count(content) > LONG_WORDS THEN 1 ELSE 0)))
        \div (IF word_count(content) = 0 THEN 1 ELSE word_count(content))

\* importance_score of one transcript (content already lower-cased)
importance_score(content) ==
    sum([k \in 1..Len(important_patterns) |->
            Len(re_finditer(important_patterns[k], content))])
    + count_char(content, "?")
    + count_char(content, "!")
    + (IF word_count(content) > LONG_WORDS THEN 1 ELSE 0)

\* the patterns with at least one match, by their index in important_patterns
matched_patterns(content) ==
    SelectSeq([k \in 1..Len(important_patterns) |-> k],
              LAMBDA k : re_search(important_patterns[k], content))

\* extract_important_notes as it would be taking the first ten notes before
\* sorting them
extract_important_notes_first_ten(transcripts, fault) ==
    IF fault THEN <<>>
    ELSE
    LET note(t) ==
            LET content == lower(t.content)
                score == IF strip(content) = <<>> THEN 0 ELSE importance_score(content)
            IN  IF score = 0 THEN <<>>
                ELSE << [content |-> t.content,
                         speaker_id |-> t.speaker_id,
                         timestamp |-> t.timestamp,
                         importance |-> score,
                         matched_patterns |-> matched_patterns(content)] >>
        important_notes ==
            prefix(flatten([i \in 1..Len(transcripts) |-> note(transcripts[i])]),
                   TOP_NOTES)
    IN  stable_sort_desc(important_notes,
            [i \in 1..Len(important_notes) |-> important_notes[i].importance])

extract_important_notes(transcripts, fault) ==
    IF fault THEN <<>>
    ELSE
    LET note(t) ==
            LET content == lower(t.content)
                score == IF strip(content) = <<>> THEN 0 ELSE importance_score(content)
            IN  IF score = 0 THEN <<>>
                ELSE << [content |-> t.content,
                         speaker_id |-> t.speaker_id,
                         timestamp |-> t.timestamp,
                         importance |-> score,
                         matched_patterns |-> matched_patterns(content)] >>
        important_notes == flatten([i \in 1..Len(transcripts) |-> note(transcripts[i])])
        sorted == stable_sort_desc(important_notes,
                      [i \in 1..Len(important_notes) |-> important_notes[i].importance])
    IN  prefix(sorted, TOP_NOTES)

----------------------------------------------------------------------------
(* extract_decisions *)

\* the Decision built for one match of one transcript: the first sentence
\* whose lower-cased text contains match.group(); none when no sentence does
decision_of_match(t, group) ==
    LET sentences == split(t.content, ".")
        hits == {k \in 1..Len(sentences) : contains(lower(sentences[k]), group)}
    IN  IF hits = {} THEN <<>>
        ELSE LET sentence == sentences[CHOOSE k \in hits : \A j \in hits : k <= j]
             IN  << [title |-> title_of(strip(sentence), sentence),
                     description |-> strip(sentence),
                     timestamp |-> t.timestamp,
                     decided_by_speaker_id |-> t.speaker_id] >>

\* the candidates in encounter order: transcripts, then patterns, then matches
decision_candidates(transcripts) ==
    LET of_pattern(t, k) ==
            LET groups == re_finditer(decision_patterns[k], t.content)
            IN  flatten([g \in 1..Len(groups) |-> decision_of_match(t, groups[g])])
        of_transcript(t) ==
            IF strip(t.content) = <<>> THEN <<>>
            ELSE flatten([k \in 1..Len(decision_patterns) |-> of_pattern(t, k)])
    IN  flatten([i \in 1..Len(transcripts) |-> of_transcript(transcripts[i])])

\* unique_by_title as it would be if a later candidate replaced the earlier
\* one of the same title
unique_by_title_keeping_last(decisions) ==
    SelectSeq([i \in 1..Len(decisions) |->
                  [d |-> decisions[i],
                   first |-> \A j \in (i + 1)..Len(decisions) :
                                decisions[j].title # decisions[i].title]],
              LAMBDA x : x.first)

\* unique_decisions: the first candidate of each title, in order
unique_by_title(decisions) ==
    SelectSeq([i \in 1..Len(decisions) |->
                  [d |-> decisions[i],
                   first |-> \A j \in 1..(i - 1) : decisions[j].title # decisions[i].title]],
              LAMBDA x : x.first)

extract_decisions(transcripts, fault) ==
    IF fault THEN <<>>
    ELSE LET unique == unique_by_title(decision_candidates(transcripts))
         IN  prefix([i \in 1..Len(unique) |-> unique[i].d], TOP_NOTES)

----------------------------------------------------------------------------
(* extract_action_items *)

\* action_score: the number of action_patterns with at least one match
action_score(content) ==
    Cardinality({k \in 1..Len(action_patterns) : re_search(action_patterns[k], content)})

\* the first of the options that is not None, else None
first_some(options) ==
    LET ok == {k \in 1..Len(options) : options[k] # None}
    IN  IF ok = {} THEN None ELSE options[CHOOSE k \in ok : \A j \in ok : k <= j]

\* assigned_to_of as it would be if the word after "will" or "should" were
\* taken for the name
assigned_to_of_word_after(content) ==
    first_some(<< search_word_after(T_WILL, content),
                  search_word_after(T_SHOULD, content),
                  search_word_after(T_ASSIGNED_TO, content),
                  search_word_before(T_IS_RESPONSIBLE, content) >>)

\* assignee_patterns, first match wins
assigned_to_of(content) ==
    first_some(<< search_word_before(T_WILL, content),
                  search_word_before(T_SHOULD, content),
                  search_word_after(T_ASSIGNED_TO, content),
                  search_word_before(T_IS_RESPONSIBLE, content) >>)

\* due_date_patterns, first match wins
due_date_of(content) ==
    first_some(<< search_date_after(T_BY, content),
                  search_date_after(T_BEFORE, content),
                  search_date_after(T_UNTIL, content),
                  search_date_after(T_DEADLINE, content) >>)

\* extract_action_items as it would be with the speaker set on every item,
\* named assignee or not
extract_action_items_always_by_speaker(transcripts, fault) ==
    IF fault THEN <<>>
    ELSE
    LET item(t) ==
            IF strip(t.content) = <<>> \/ action_score(t.content) < 2 THEN <<>>
            ELSE << [title |-> title_of(t.content, t.content),
                     description |-> t.content,
                     assigned_to_speaker_id |-> Some(t.speaker_id),
                     assigned_to_name |-> assigned_to_of(t.content),
                     due_date |-> due_date_of(t.content),
                     status |-> "PENDING",
                     priority |-> "MEDIUM"] >>
    IN  prefix(flatten([i \in 1..Len(transcripts) |-> item(transcripts[i])]), TOP_ACTIONS)

\* extract_action_items as it would be keeping the last TOP_ACTIONS items
\* instead of the first
extract_action_items_last_fifteen(transcripts, fault) ==
    IF fault THEN <<>>
    ELSE
    LET item(t) ==
            IF strip(t.content) = <<>> \/ action_score(t.content) < 2 THEN <<>>
            ELSE LET assigned_to == assigned_to_of(t.content)
                 IN  << [title |-> title_of(t.content, t.content),
                         description |-> t.content,
                         assigned_to_speaker_id |->
                             IF assigned_to = None THEN Some(t.speaker_id) ELSE None,
                         assigned_to_name |-> assigned_to,
                         due_date |-> due_date_of(t.content),
                         status |-> "PENDING",
                         priority |-> "MEDIUM"] >>
        action_items == flatten([i \in 1..Len(transcripts) |-> item(transcripts[i])])
    IN  IF Len(action_items) <= TOP_ACTIONS THEN action_items
        ELSE SubSeq(action_items, Len(action_items) - TOP_ACTIONS + 1, Len(action_items))

\* extract_action_items as it would be with one kind of action word being
\* enough
extract_action_items_from_one_kind(transcripts, fault) ==
    IF fault THEN <<>>
    ELSE
    LET item(t) ==
            IF strip(t.content) = <<>> \/ action_score(t.content) < 1 THEN <<>>
            ELSE LET assigned_to == assigned_to_of(t.content)
                 IN  << [title |-> title_of(t.content, t.content),
                         description |-> t.content,
                         assigned_to_speaker_id |->
                             IF assigned_to = None THEN Some(t.speaker_id) ELSE None,
                         assigned_to_name |-> assigned_to,
                         due_date |-> due_date_of(t.content),
                         status |-> "PENDING",
                         priority |-> "MEDIUM"] >>
    IN  prefix(flatten([i \in 1..Len(transcripts) |-> item(transcripts[i])]), TOP_ACTIONS)

extract_action_items(transcripts, fault) ==
    IF fault THEN <<>>
    ELSE
    LET item(t) ==
            IF strip(t.content) = <<>> \/ action_score(t.content) < 2 THEN <<>>
            ELSE LET assigned_to == assigned_to_of(t.content)
                 IN  << [title |-> title_of(t.content, t.content),
                         description |-> t.content,
                         assigned_to_speaker_id |->
                             IF assigned_to = None THEN Some(t.speaker_id) ELSE None,
                         assigned_to_name |-> assigned_to,
                         due_date |-> due_date_of(t.content),
                         status |-> "PENDING",
                         priority |-> "MEDIUM"] >>
    IN  prefix(flatten([i \in 1..Len(transcripts) |-> item(transcripts[i])]), TOP_ACTIONS)

----------------------------------------------------------------------------
(* extract_themes_from_transcripts *)

\* sentence_model.encode(text): an embedding that is a function of the text
\* alone (the model is loaded once); two small coordinates stand for the vector
encode(text) == << 1 + (Len(text) % 3), 1 + (word_count(text) % 3) >>

dot(a, b) == sum([i \in 1..Len(a) |-> a[i] * b[i]])

\* the largest c in 0..SCALE with c * c * den <= num
floor_root(num, den) ==
    CHOOSE c \in 0..SCALE :
        /\ c * c * den <= num
        /\ c = SCALE \/ (c + 1) * (c + 1) * den > num

\* cosine_similarity([a], [b])[0][0] in units of 1/SCALE, rounded down;
\* sklearn gives 0 for a zero vector
cosine_similarity(a, b) ==
    LET d == dot(a, b)
        nn == dot(a, a) * dot(b, b)
        top == floor_root(SCALE * SCALE * d * d, nn)
    IN  IF nn = 0 THEN 0
        ELSE IF d >= 0 THEN top
        ELSE IF top * top * nn = SCALE * SCALE * d * d THEN 0 - top
        ELSE 0 - (top + 1)

\* the labelings KMeans(n_clusters, random_state = 42, n_init = 10).fit_predict
\* can return: with no more distinct points than clusters every distinct point
\* is a cluster of its own (inertia 0); which label a cluster gets is not
\* specified.  With more distinct points any labeling is allowed for.
kmeans_labelings(embeddings, n_clusters) ==
    LET n == Len(embeddings)
        distinct == {embeddings[i] : i \in 1..n}
        all == [1..n -> 0..(n_clusters - 1)]
    IN  IF Cardinality(distinct) <= n_clusters
        THEN {l \in all : \A i, j \in 1..n :
                 (l[i] = l[j]) <=> (embeddings[i] = embeddings[j])}
        ELSE all

\* texts: the contents that are not blank
theme_texts(transcripts) ==
    SelectSeq([i \in 1..Len(transcripts) |-> transcripts[i].content],
              LAMBDA c : strip(c) # <<>>)

\* cluster_labels as it would be with fit_predict called for any number of
\* texts and clusters
cluster_labelings_of_any_count(transcripts, num_themes) ==
    LET texts == theme_texts(transcripts)
        n_clusters == IF num_themes < Len(texts) THEN num_themes ELSE Len(texts)
    IN  kmeans_labelings([i \in 1..Len(texts) |-> encode(texts[i])], n_clusters)

\* the values cluster_labels can get for these transcripts: what fit_predict
\* can return, and the empty labeling when the function returns before it
\* gets there
cluster_labelings(transcripts, num_themes) ==
    LET texts == theme_texts(transcripts)
        n_clusters == IF num_themes < Len(texts) THEN num_themes ELSE Len(texts)
    IN  IF Len(transcripts) < 2 \/ Len(texts) < 2 \/ n_clusters < 2 THEN {<<>>}
        ELSE kmeans_labelings([i \in 1..Len(texts) |-> encode(texts[i])], n_clusters)

\* the same with the default num_themes, as process_meeting_notes calls it
theme_labelings(transcripts) == cluster_labelings(transcripts, NUM_THEMES)

\* np.argmax: the first index of the largest value
argmax(xs) == CHOOSE i \in 1..Len(xs) :
    /\ \A j \in 1..Len(xs) : xs[j] <= xs[i]
    /\ \A j \in 1..(i - 1) : xs[j] < xs[i]

\* the theme of one cluster; members are its indices in texts, in order
theme_of_cluster(texts, embeddings, members) ==
    LET cluster_texts == [k \in 1..Len(members) |-> texts[members[k]]]
        cluster_embeddings == [k \in 1..Len(members) |-> embeddings[members[k]]]
        \* np.mean(..., axis = 0) times the member count: the same direction
        centroid == [c \in 1..Len(cluster_embeddings[1]) |->
                        sum([k \in 1..Len(members) |-> cluster_embeddings[k][c]])]
        similarities == [k \in 1..Len(members) |->
                            cosine_similarity(centroid, cluster_embeddings[k])]
        representative_text == cluster_texts[argmax(similarities)]
    IN  [title |-> title_of(split(representative_text, ".")[1], representative_text),
         description |-> << "Discussion cluster with", Len(cluster_texts),
                            "related segments" >>,
         confidence |-> sum(similarities) \div Len(similarities),
         sample_texts |-> prefix(cluster_texts, 3)]

\* extract_themes_from_transcripts as it would be without the sort
extract_themes_in_cluster_order(transcripts, num_themes, cluster_labels, fault) ==
    IF fault THEN <<>>
    ELSE
    LET texts == theme_texts(transcripts)
        embeddings == [i \in 1..Len(texts) |-> encode(texts[i])]
        n_clusters == IF num_themes < Len(texts) THEN num_themes ELSE Len(texts)
        members(cluster_id) ==
            SelectSeq([i \in 1..Len(texts) |-> i],
                      LAMBDA i : cluster_labels[i] = cluster_id)
        themes == flatten([c \in 1..n_clusters |->
                     IF members(c - 1) = <<>> THEN <<>>
                     ELSE << theme_of_cluster(texts, embeddings, members(c - 1)) >>])
    IN  IF Len(transcripts) < 2 \/ Len(texts) < 2 \/ n_clusters < 2 THEN <<>>
        ELSE themes

extract_themes_from_transcripts(transcripts, num_themes, cluster_labels, fault) ==
    IF fault THEN <<>>
    ELSE
    LET texts == theme_texts(transcripts)
        embeddings == [i \in 1..Len(texts) |-> encode(texts[i])]
        n_clusters == IF num_themes < Len(texts) THEN num_themes ELSE Len(texts)
        members(cluster_id) ==
            SelectSeq([i \in 1..Len(texts) |-> i],
                      LAMBDA i : cluster_labels[i] = cluster_id)
        themes == flatten([c \in 1..n_clusters |->
                     IF members(c - 1) = <<>> THEN <<>>
                     ELSE << theme_of_cluster(texts, embeddings, members(c - 1)) >>])
    IN  IF Len(transcripts) < 2 \/ Len(texts) < 2 \/ n_clusters < 2 THEN <<>>
        ELSE stable_sort_desc(themes, [i \in 1..Len(themes) |-> themes[i].confidence])

----------------------------------------------------------------------------
(* Summarizer *)

\* str(n) for a natural number
RECURSIVE str(_)
str(n) ==
    LET digit == <<"0","1","2","3","4","5","6","7","8","9">>[(n % 10) + 1]
    IN  IF n < 10 THEN << digit >> ELSE str(n \div 10) \o << digit >>

TXT_MEETING == <<"M", "e", "e", "t", "i", "n", "g", " ">>
TXT_OPEN == <<"M", "e", "e", "t", "i", "n", "g", " ", "'">>
TXT_COMPLETED == <<"'", " ", "w", "a", "s", " ", "c", "o", "m", "p", "l", "e", "t", "e", "d", ".">>
TXT_NO_CONTENT == <<"'", " ", "w", "a", "s", " ", "h", "e", "l", "d", " ", "b", "u", "t", " ", "n", "o", " ", "t", "r", "a", "n", "s", "c", "r", "i", "p", "t", " ", "c", "o", "n", "t", "e", "n", "t", " ", "i", "s", " ", "a", "v", "a", "i", "l", "a", "b", "l", "e", ".">>
TXT_INCLUDED == <<"'", " ", "i", "n", "c", "l", "u", "d", "e", "d", " ">>
TXT_PARTICIPANTS == <<" ", "p", "a", "r", "t", "i", "c", "i", "p", "a", "n", "t", "s", " ", "w", "i", "t", "h", " ">>
TXT_SEGMENTS == <<" ", "d", "i", "s", "c", "u", "s", "s", "i", "o", "n", " ", "s", "e", "g", "m", "e", "n", "t", "s", ".", " ">>
TXT_BEGAN == <<"T", "h", "e", " ", "m", "e", "e", "t", "i", "n", "g", " ", "b", "e", "g", "a", "n", " ", "w", "i", "t", "h", " ", "d", "i", "s", "c", "u", "s", "s", "i", "o", "n", "s", " ", "a", "b", "o", "u", "t", ":", " ">>
TXT_CONCLUDED == <<" ", "T", "h", "e", " ", "m", "e", "e", "t", "i", "n", "g", " ", "c", "o", "n", "c", "l", "u", "d", "e", "d", " ", "w", "i", "t", "h", ":", " ">>
TXT_SPEAKER == <<"S", "p", "e", "a", "k", "e", "r", " ">>

\* s.get('content', '')[:50] + "..." of the first two of the segments
previews(segments) ==
    LET two == prefix(segments, 2)
    IN  join(<<" ">>, [i \in 1..Len(two) |->
                          prefix(two[i].content, PREVIEW_LEN) \o ELLIPSIS])

\* transcripts[-3:] if len(transcripts) > 3 else []
last_segments_of(transcripts) ==
    IF Len(transcripts) > 3
    THEN SubSeq(transcripts, Len(transcripts) - 2, Len(transcripts))
    ELSE <<>>

\* fault: formatting raises, and the except branch returns the fixed sentence
generate_basic_summary(transcripts, meeting_title, fault) ==
    IF transcripts = <<>> THEN TXT_OPEN \o meeting_title \o TXT_NO_CONTENT
    ELSE IF fault THEN TXT_OPEN \o meeting_title \o TXT_COMPLETED
    ELSE
    LET total_segments == Len(transcripts)
        speakers == {transcripts[i].speaker_id : i \in 1..Len(transcripts)} \ {<<>>}
        first_segments == prefix(transcripts, 3)
        last_segments == last_segments_of(transcripts)
    IN  TXT_OPEN \o meeting_title \o TXT_INCLUDED \o str(Cardinality(speakers))
        \o TXT_PARTICIPANTS \o str(total_segments) \o TXT_SEGMENTS
        \o TXT_BEGAN \o previews(first_segments)
        \o (IF last_segments # <<>> THEN TXT_CONCLUDED \o previews(last_segments)
            ELSE <<>>)

\* full_transcript: "Speaker <id>: <content>" lines of the non-blank segments,
\* cut to PROMPT_LEN characters
full_transcript_of(transcripts) ==
    LET kept == SelectSeq(transcripts, LAMBDA t : strip(t.content) # <<>>)
        text == join(<<"\n">>, [i \in 1..Len(kept) |->
                    TXT_SPEAKER \o kept[i].speaker_id \o <<":", " ">> \o kept[i].content])
    IN  IF Len(text) > PROMPT_LEN THEN prefix(text, PROMPT_LEN) \o ELLIPSIS ELSE text

\* whether the call to the generative capability is made at all
calls_openai(transcripts, api_key) == api_key /\ transcripts # <<>>

\* generate_summary_with_openai as it would be without its except branch
\* around the awaited call: a failed call leaves no text
generate_summary_unguarded(transcripts, meeting_title, api_key, response, fault) ==
    IF ~calls_openai(transcripts, api_key)
    THEN generate_basic_summary(transcripts, meeting_title, fault)
    ELSE strip(response.content)

\* api_key: OPENAI_API_KEY is set.  response: what the awaited call gave back,
\* [ok |-> TRUE, content |-> text] or [ok |-> FALSE, error |-> name] when it
\* raised; read only when the call is made.
generate_summary_with_openai(transcripts, meeting_title, api_key, response, fault) ==
    IF ~calls_openai(transcripts, api_key)
    THEN generate_basic_summary(transcripts, meeting_title, fault)
    ELSE IF response.ok THEN strip(response.content)
    ELSE generate_basic_summary(transcripts, meeting_title, fault)

----------------------------------------------------------------------------
(* The services' state *)

\* what the STT service is asked to store, in this order: the speaker, the
\* transcribed text and the timestamp the client sent with the audio
UTTERANCES ==
    << [speaker_id |-> <<"A">>, timestamp |-> <<"t", "1">>,
        text |-> <<"W", "e", " ", "a", "g", "r", "e", "e", "d", ".">>],
       [speaker_id |-> <<"B">>, timestamp |-> <<"t", "2">>,
        text |-> <<"A", "l", " ", "w", "i", "l", "l", " ", "f", "i", "x", " ", "i", "t", " ", "b", "y", " ", "M", "a", "y", " ", "5", "!">>],
       [speaker_id |-> <<"A">>, timestamp |-> <<"t", "3">>,
        text |-> <<"A", "n", "y", " ", "r", "i", "s", "k", "?">>],
       [speaker_id |-> <<"B">>, timestamp |-> <<"t", "4">>,
        text |-> <<"N", "o", ".">>] >>

\* the steps by which the clock advances
TICK_STEPS == {1, NOTES_TTL - 1}

\* the stages that can hit an internal error, by the words of their log line
STAGES == {"extracting themes", "extracting important notes", "extracting decisions",
           "extracting action items", "generating basic summary"}
FAULT_SETS == {f \in SUBSET STAGES : Cardinality(f) <= MaxFaults}

\* what the awaited chat completion can give back
OPENAI_RESPONSES ==
    { [ok |-> TRUE, content |-> <<" ", "L", "a", "u", "n", "c", "h", " ", "a", "g", "r", "e", "e", "d", ".", " ">>, error |-> "none"],
      [ok |-> FALSE, content |-> <<>>, error |-> "APIError"],
      [ok |-> FALSE, content |-> <<>>, error |-> "Timeout"] }

VARIABLES
    now,            \* the clock, in seconds
    ticks,          \* how often the clock has advanced
    OPENAI_API_KEY, \* whether the key is configured (fixed once the service runs)
    broken,         \* the stages whose code raises on the transcripts at hand
    quota,          \* how many processing requests the clients make
    probe,          \* a call of one function on its own: its arguments and result
    records,        \* Redis: transcript:<meeting>:<time> keys, by order of creation
    lists,          \* Redis: the list transcripts:<meeting>
    notes,          \* Redis: processed_notes:<meeting>, the artifact cache
    runs,           \* the process_meeting_notes background tasks
    last_write,     \* per meeting, which run wrote the cached entry, and when
    overtaken       \* history: the runs under way that a delete has overtaken

vars == << now, ticks, OPENAI_API_KEY, broken, quota, probe, records, lists, notes, runs,
           last_write, overtaken >>

Runs == 1..MaxRuns

\* the overtaken runs that have not returned by the end of the step
still_overtaken == {r \in overtaken : runs'[r].pc # "done"}

\* json.dumps and json.loads
json_dumps(obj) == << "json", obj >>
json_loads(text) == text[2]

\* datetime.isoformat of a clock value, and the clock value it denotes
isoformat(t) == << "iso", t >>
fromisoformat(s) == s[2]

\* a Redis entry is there until its expiry time
alive(entry, t) == entry.expire_at = None \/ t < entry.expire_at[1]

\* redis get: the value of an optional entry, None when there is none
redis_get(entry) == IF entry = None THEN None ELSE Some(entry[1].value)

\* redis setex: the entry that replaces whatever was under the key
redis_setex(t, ttl, value) == Some([value |-> value, expire_at |-> Some(t + ttl)])

idle_run ==
    [pc |-> "idle", meeting_id |-> None, transcript_keys |-> <<>>,
     transcripts |-> <<>>, extracted |-> None, notes_data |-> None,
     result |-> None, log |-> {}, writes |-> 0, started |-> None, seen |-> None,
     response |-> None]

\* no function is called on its own
no_probe == [call |-> "none", args |-> <<>>, ret |-> <<>>]

\* the services are up, Redis is empty, no request has been made
Started ==
    /\ probe = no_probe
    /\ now = 0
    /\ ticks = 0
    /\ OPENAI_API_KEY \in BOOLEAN
    /\ records = <<>>
    /\ lists = [m \in Meetings |-> [keys |-> <<>>, expire_at |-> None]]
    /\ notes = [m \in Meetings |-> None]
    /\ runs = [r \in Runs |-> idle_run]
    /\ last_write = [m \in Meetings |-> None]
    /\ overtaken = {}

\* concurrent runs, every stage working
Init == Started /\ broken = {} /\ quota = MaxRuns

\* one run, with stages that hit an internal error
InitFaults == Started /\ broken \in FAULT_SETS /\ quota = 1

----------------------------------------------------------------------------
(* The clock, and Redis expiring what is due *)

expire_entry(entry, t) ==
    IF entry # None /\ ~alive(entry[1], t) THEN None ELSE entry

Tick(d) ==
    /\ ticks < MaxTicks
    /\ ticks' = ticks + 1
    /\ now' = now + d
    /\ records' = [k \in 1..Len(records) |-> expire_entry(records[k], now + d)]
    /\ lists' = [m \in Meetings |->
                    IF alive(lists[m], now + d) THEN lists[m]
                    ELSE [keys |-> <<>>, expire_at |-> None]]
    /\ notes' = [m \in Meetings |-> expire_entry(notes[m], now + d)]
    /\ last_write' = [m \in Meetings |->
                         IF expire_entry(notes[m], now + d) = None THEN None
                         ELSE last_write[m]]
    /\ UNCHANGED << OPENAI_API_KEY, broken, quota, probe, runs, overtaken >>

----------------------------------------------------------------------------
(* store_transcript of the STT service *)

transcript_record(meeting_id, utterance) ==
    [meeting_id |-> meeting_id,
     speaker_id |-> utterance.speaker_id,
     content |-> utterance.text,
     timestamp |-> utterance.timestamp]

\* LPUSH puts the key at the head of the list
lpush(list, key) == [list EXCEPT !.keys = << key >> \o list.keys]

\* the whole task: SETEX of the record under a key of its own, LPUSH of the
\* key, EXPIRE of the list
store_transcript(meeting_id) ==
    /\ Len(records) < MaxSegs
    /\ Len(records) < Len(UTTERANCES)
    /\ records' = Append(records,
           redis_setex(now, TRANSCRIPT_TTL,
               json_dumps(transcript_record(meeting_id, UTTERANCES[Len(records) + 1]))))
    /\ lists' = [lists EXCEPT ![meeting_id] =
                    [lpush(@, Len(records) + 1) EXCEPT
                        !.expire_at = Some(now + TRANSCRIPT_TTL)]]
    /\ UNCHANGED << now, ticks, OPENAI_API_KEY, broken, quota, probe, notes, runs, last_write, overtaken >>

----------------------------------------------------------------------------
(* process_meeting_notes, one background task per run *)

\* extract_all as it would be with one try block around the four stages: the
\* first internal error empties every list
extract_all_in_one_try(transcripts, cluster_labels, faults) ==
    IF faults \cap {"extracting themes", "extracting important notes",
                    "extracting decisions", "extracting action items"} # {}
    THEN [themes |-> <<>>, important_notes |-> <<>>, decisions |-> <<>>,
          action_items |-> <<>>]
    ELSE [themes |-> extract_themes_from_transcripts(transcripts, NUM_THEMES,
                        cluster_labels, FALSE),
          important_notes |-> extract_important_notes(transcripts, FALSE),
          decisions |-> extract_decisions(transcripts, FALSE),
          action_items |-> extract_action_items(transcripts, FALSE)]

\* the four extractor results of a run; faults are the stages whose except
\* branch is taken, cluster_labels what KMeans returned
extract_all(transcripts, cluster_labels, faults) ==
    [themes |-> extract_themes_from_transcripts(transcripts, NUM_THEMES,
                    cluster_labels, "extracting themes" \in faults),
     important_notes |-> extract_important_notes(transcripts,
                    "extracting important notes" \in faults),
     decisions |-> extract_decisions(transcripts, "extracting decisions" \in faults),
     action_items |-> extract_action_items(transcripts,
                    "extracting action items" \in faults)]

\* extract_all, evaluated once for every list of transcripts a run can load:
\* records of the STT service, the later stored ahead of the earlier (the
\* order LRANGE gives the LPUSHed keys in), without those that have expired
STORED_RECORDS ==
    {transcript_record(m, UTTERANCES[u]) :
        m \in Meetings, u \in {v \in 1..Len(UTTERANCES) : v <= MaxSegs}}
LOADABLE ==
    {ts \in UNION {[1..n -> STORED_RECORDS] : n \in 1..MaxSegs} :
        \A i, j \in 1..Len(ts) :
            i < j => \E u, v \in 1..Len(UTTERANCES) :
                        /\ v < u
                        /\ ts[i] = transcript_record(ts[i].meeting_id, UTTERANCES[u])
                        /\ ts[j] = transcript_record(ts[j].meeting_id, UTTERANCES[v])}
EXTRACTED ==
    [k \in UNION {{<<ts, faults, cluster_labels>> :
                      faults \in FAULT_SETS, cluster_labels \in theme_labelings(ts)} :
                  ts \in LOADABLE} |->
        extract_all(k[1], k[3], k[2])]

\* what the extractors log
extract_log(faults) ==
    {"Error " \o f : f \in faults \ {"generating basic summary"}}

\* meeting_title = f"Meeting {meeting_id}"
meeting_title_of(meeting_id) == TXT_MEETING \o meeting_id

\* what generate_summary_with_openai and generate_basic_summary log
summary_log(transcripts, api_key, resp, fault) ==
    (IF calls_openai(transcripts, api_key) /\ ~resp.ok
     THEN {"Error generating OpenAI summary"} ELSE {})
    \cup (IF fault /\ ~(calls_openai(transcripts, api_key) /\ resp.ok)
          THEN {"Error generating basic summary"} ELSE {})

\* notes_data
assemble(meeting_id, summary, extracted, transcripts, t) ==
    [meeting_id |-> meeting_id,
     summary |-> summary,
     themes |-> extracted.themes,
     important_notes |-> extracted.important_notes,
     decisions |-> extracted.decisions,
     action_items |-> extracted.action_items,
     processed_at |-> isoformat(t),
     transcript_count |-> Len(transcripts)]

\* the run returns: ret is None or Some(notes_data); its locals are gone
returned(run, ret, line) ==
    [run EXCEPT !.pc = "done", !.result = ret, !.log = @ \cup {line},
                !.transcript_keys = <<>>, !.transcripts = <<>>,
                !.extracted = None, !.notes_data = None,
                !.started = None, !.seen = None]

\* the run has its summary: it stamps the artifact and goes on to write it
summarized(run, summary, lines) ==
    [run EXCEPT !.pc = "setex",
                !.notes_data = Some(assemble(run.meeting_id[1], summary,
                                             run.extracted[1], run.transcripts, now)),
                !.log = @ \cup lines]

\* the summary and what the summarizer logs, for the answer resp of the
\* awaited call (not read when no call is made)
summary_of(run, resp) ==
    generate_summary_with_openai(run.transcripts, meeting_title_of(run.meeting_id[1]),
        OPENAI_API_KEY, resp, "generating basic summary" \in broken)

summary_log_of(run, resp) ==
    summary_log(run.transcripts, OPENAI_API_KEY, resp,
                "generating basic summary" \in broken)

\* loaded as it would be without the early return for an empty list
loaded_without_no_data_return(r, run) ==
    \E cluster_labels \in theme_labelings(run.transcripts) :
        LET run2 == [run EXCEPT
                        !.transcript_keys = <<>>,
                        !.extracted =
                            Some(IF run.transcripts = <<>>
                                 THEN extract_all(<<>>, cluster_labels, broken)
                                 ELSE EXTRACTED[<<run.transcripts, broken, cluster_labels>>]),
                        !.log = @ \cup extract_log(broken)]
        IN  IF calls_openai(run.transcripts, OPENAI_API_KEY)
            THEN runs' = [runs EXCEPT ![r] = [run2 EXCEPT !.pc = "openai"]]
            ELSE runs' = [runs EXCEPT ![r] =
                     summarized(run2, summary_of(run2, None),
                                summary_log_of(run2, None))]

\* the transcripts are loaded: the straight-line code up to the next await
loaded(r, run) ==
    IF run.transcripts = <<>>
    THEN runs' = [runs EXCEPT ![r] = returned(run, None, "No transcripts found")]
    ELSE \E cluster_labels \in theme_labelings(run.transcripts) :
            LET run2 == [run EXCEPT
                            !.transcript_keys = <<>>,
                            !.extracted =
                                Some(EXTRACTED[<<run.transcripts, broken, cluster_labels>>]),
                            !.log = @ \cup extract_log(broken)]
            IN  IF calls_openai(run.transcripts, OPENAI_API_KEY)
                THEN runs' = [runs EXCEPT ![r] = [run2 EXCEPT !.pc = "openai"]]
                ELSE runs' = [runs EXCEPT ![r] =
                         summarized(run2, summary_of(run2, None),
                                    summary_log_of(run2, None))]

\* the background task starts and gets the answer to LRANGE list_key 0 -1
process_lrange(r) ==
    /\ runs[r].pc = "queued"
    /\ LET m == runs[r].meeting_id[1]
           run == [runs[r] EXCEPT !.pc = "get",
                                  !.transcript_keys = lists[m].keys,
                                  !.started = Some(now),
                                  !.seen = Some(notes[m])]
       IN  IF lists[m].keys = <<>> THEN loaded(r, run)
           ELSE runs' = [runs EXCEPT ![r] = run]
    /\ UNCHANGED << now, ticks, OPENAI_API_KEY, broken, quota, probe, records, lists, notes, last_write >>
    /\ overtaken' = still_overtaken

\* the answer to GET key for the next key of the list
process_get(r) ==
    /\ runs[r].pc = "get"
    /\ LET key == Head(runs[r].transcript_keys)
           transcript_data == redis_get(records[key])
           run == [runs[r] EXCEPT
                      !.transcript_keys = Tail(@),
                      !.transcripts = IF transcript_data = None THEN @
                                      ELSE Append(@, json_loads(transcript_data[1]))]
       IN  IF run.transcript_keys = <<>> THEN loaded(r, run)
           ELSE runs' = [runs EXCEPT ![r] = run]
    /\ UNCHANGED << now, ticks, OPENAI_API_KEY, broken, quota, probe, records, lists, notes, last_write >>
    /\ overtaken' = still_overtaken

\* a Redis call of the loading phase raises: the outer except returns None
process_read_error(r) ==
    /\ runs[r].pc \in {"queued", "get"}
    /\ runs' = [runs EXCEPT ![r] =
           returned(@, None, "Error processing meeting notes")]
    /\ UNCHANGED << now, ticks, OPENAI_API_KEY, broken, quota, probe, records, lists, notes, last_write >>
    /\ overtaken' = still_overtaken

\* the awaited chat completion comes back, or raises
process_openai(r, resp) ==
    /\ runs[r].pc = "openai"
    /\ runs' = [runs EXCEPT ![r] =
           summarized(@, summary_of(@, resp), summary_log_of(@, resp))]
    /\ UNCHANGED << now, ticks, OPENAI_API_KEY, broken, quota, probe, records, lists, notes, last_write >>
    /\ overtaken' = still_overtaken

\* process_setex as it would be with the transcripts' expiry of one hour
process_setex_for_an_hour(r) ==
    /\ runs[r].pc = "setex"
    /\ LET m == runs[r].meeting_id[1]
       IN  /\ notes' = [notes EXCEPT ![m] =
                  redis_setex(now, TRANSCRIPT_TTL, json_dumps(runs[r].notes_data[1]))]
           /\ last_write' = [last_write EXCEPT ![m] = Some([run |-> r, at |-> now])]
    /\ runs' = [runs EXCEPT ![r] =
           returned([@ EXCEPT !.writes = @ + 1], @.notes_data,
                    "Successfully processed notes")]
    /\ UNCHANGED << now, ticks, OPENAI_API_KEY, broken, quota, probe, records, lists >>
    /\ overtaken' = still_overtaken

\* process_setex as it would be if it updated a cached artifact in place,
\* keeping the summary that is already there
process_setex_keeping_summary(r) ==
    /\ runs[r].pc = "setex"
    /\ LET m == runs[r].meeting_id[1]
           cached == redis_get(notes[m])
           merged == IF cached = None THEN runs[r].notes_data[1]
                     ELSE [runs[r].notes_data[1] EXCEPT
                              !.summary = json_loads(cached[1]).summary]
       IN  /\ notes' = [notes EXCEPT ![m] =
                  redis_setex(now, NOTES_TTL, json_dumps(merged))]
           /\ last_write' = [last_write EXCEPT ![m] = Some([run |-> r, at |-> now])]
    /\ runs' = [runs EXCEPT ![r] =
           returned([@ EXCEPT !.writes = @ + 1], @.notes_data,
                    "Successfully processed notes")]
    /\ UNCHANGED << now, ticks, OPENAI_API_KEY, broken, quota, probe, records, lists >>
    /\ overtaken' = still_overtaken

\* SETEX notes_key 86400 json.dumps(notes_data) succeeds; the run returns notes_data
process_setex(r) ==
    /\ runs[r].pc = "setex"
    /\ LET m == runs[r].meeting_id[1]
       IN  /\ notes' = [notes EXCEPT ![m] =
                  redis_setex(now, NOTES_TTL, json_dumps(runs[r].notes_data[1]))]
           /\ last_write' = [last_write EXCEPT ![m] = Some([run |-> r, at |-> now])]
    /\ runs' = [runs EXCEPT ![r] =
           returned([@ EXCEPT !.writes = @ + 1], @.notes_data,
                    "Successfully processed notes")]
    /\ UNCHANGED << now, ticks, OPENAI_API_KEY, broken, quota, probe, records, lists >>
    /\ overtaken' = still_overtaken

\* process_setex_error as it would be if the failure came after the value
\* was stored (the error raised by the logging line that follows the write)
process_setex_error_after_write(r) ==
    /\ runs[r].pc = "setex"
    /\ LET m == runs[r].meeting_id[1]
       IN  /\ notes' = [notes EXCEPT ![m] =
                  redis_setex(now, NOTES_TTL, json_dumps(runs[r].notes_data[1]))]
           /\ last_write' = [last_write EXCEPT ![m] = Some([run |-> r, at |-> now])]
    /\ runs' = [runs EXCEPT ![r] =
           returned([@ EXCEPT !.writes = @ + 1], None,
                    "Error processing meeting notes")]
    /\ UNCHANGED << now, ticks, OPENAI_API_KEY, broken, quota, probe, records, lists >>
    /\ overtaken' = still_overtaken

\* process_setex_error as it would be if the except branch dropped the key
process_setex_error_dropping_entry(r) ==
    /\ runs[r].pc = "setex"
    /\ LET m == runs[r].meeting_id[1]
       IN  /\ notes' = [notes EXCEPT ![m] = None]
           /\ last_write' = [last_write EXCEPT ![m] = None]
    /\ runs' = [runs EXCEPT ![r] = returned(@, None, "Error processing meeting notes")]
    /\ UNCHANGED << now, ticks, OPENAI_API_KEY, broken, quota, probe, records, lists >>
    /\ overtaken' = still_overtaken

\* process_setex_error as it would be if the except branch only logged and the
\* run went on to return notes_data
process_setex_error_returning_artifact(r) ==
    /\ runs[r].pc = "setex"
    /\ runs' = [runs EXCEPT ![r] =
           returned(@, @.notes_data, "Error processing meeting notes")]
    /\ UNCHANGED << now, ticks, OPENAI_API_KEY, broken, quota, probe, records, lists, notes, last_write >>
    /\ overtaken' = still_overtaken

\* SETEX raises: the outer except returns None
process_setex_error(r) ==
    /\ runs[r].pc = "setex"
    /\ runs' = [runs EXCEPT ![r] = returned(@, None, "Error processing meeting notes")]
    /\ UNCHANGED << now, ticks, OPENAI_API_KEY, broken, quota, probe, records, lists, notes, last_write >>
    /\ overtaken' = still_overtaken

----------------------------------------------------------------------------
(* The endpoints of the notes service *)

\* process_notes_endpoint as it would be if it looked for transcripts first
\* and refused a meeting that has none
process_notes_endpoint_needing_segments(meeting_id) ==
    /\ \E r \in Runs :
          /\ r <= quota
          /\ runs[r].pc = "idle"
          /\ \A q \in 1..(r - 1) : runs[q].pc # "idle"
          /\ runs' = [runs EXCEPT ![r] =
                 [@ EXCEPT !.pc = "queued", !.meeting_id = Some(meeting_id),
                           !.response = Some([success |-> lists[meeting_id].keys # <<>>,
                                              meeting_id |-> meeting_id])]]
    /\ UNCHANGED << now, ticks, OPENAI_API_KEY, broken, quota, probe, records, lists, notes, last_write >>
    /\ overtaken' = still_overtaken

\* POST /process-notes/{meeting_id}: queues the background task and answers;
\* the answer is kept with the task it started
process_notes_endpoint(meeting_id) ==
    /\ \E r \in Runs :
          /\ r <= quota
          /\ runs[r].pc = "idle"
          /\ \A q \in 1..(r - 1) : runs[q].pc # "idle"
          /\ runs' = [runs EXCEPT ![r] =
                 [@ EXCEPT !.pc = "queued", !.meeting_id = Some(meeting_id),
                           !.response = Some([success |-> TRUE,
                                              meeting_id |-> meeting_id])]]
    /\ UNCHANGED << now, ticks, OPENAI_API_KEY, broken, quota, probe, records, lists, notes, last_write >>
    /\ overtaken' = still_overtaken

\* notes_response as it would be without json.loads
notes_response_unparsed(meeting_id, notes_data) ==
    [success |-> notes_data # None,
     meeting_id |-> meeting_id,
     notes |-> IF notes_data = None THEN None ELSE Some(notes_data[1])]

\* the body GET /notes/{meeting_id} answers with, for the answer of GET notes_key
notes_response(meeting_id, notes_data) ==
    [success |-> notes_data # None,
     meeting_id |-> meeting_id,
     notes |-> IF notes_data = None THEN None ELSE Some(json_loads(notes_data[1]))]

\* GET /notes/{meeting_id}: one read of the cache, no state of its own
get_processed_notes(meeting_id) ==
    /\ notes_response(meeting_id, redis_get(notes[meeting_id])).meeting_id = meeting_id
    /\ UNCHANGED vars

\* DELETE /notes/{meeting_id}.  overtaken gets the runs of the meeting that
\* were triggered before this delete took an artifact out of the cache and
\* have not returned
delete_processed_notes(meeting_id) ==
    /\ notes' = [notes EXCEPT ![meeting_id] = None]
    /\ last_write' = [last_write EXCEPT ![meeting_id] = None]
    /\ overtaken' = overtaken \cup
          {r \in Runs : /\ notes[meeting_id] # None
                        /\ runs[r].pc \in {"queued", "get", "openai", "setex"}
                        /\ runs[r].meeting_id = Some(meeting_id)}
    /\ UNCHANGED << now, ticks, OPENAI_API_KEY, broken, quota, probe, records, lists, runs >>

----------------------------------------------------------------------------

Next ==
    \/ \E d \in TICK_STEPS : Tick(d)
    \/ \E m \in Meetings : store_transcript(m)
    \/ \E m \in Meetings : process_notes_endpoint(m)
    \/ \E r \in Runs : process_lrange(r)
    \/ \E r \in Runs : process_get(r)
    \/ \E r \in Runs : process_read_error(r)
    \/ \E r \in Runs, resp \in OPENAI_RESPONSES : process_openai(r, resp)
    \/ \E r \in Runs : process_setex(r)
    \/ \E r \in Runs : process_setex_error(r)
    \/ \E m \in Meetings : get_processed_notes(m)
    \/ \E m \in Meetings : delete_processed_notes(m)

Spec == Init /\ [][Next]_vars

SpecFaults == InitFaults /\ [][Next]_vars

----------------------------------------------------------------------------
(* The extractors called on their own, on lists of transcripts that are    *)
(* windows of scripted meetings                                            *)

\* transcripts heard in one window
MaxHeard == 17
\* places a window can start at
MaxFrom == 2
\* transcripts handed to the theme clusterer
MaxClustered == 3
\* keywords appended to one content
MaxAppended == 1
\* member embeddings of one cluster
MaxMembers == 3

\* the example of the spec
EXAMPLE ==
    << [speaker_id |-> <<"A">>, timestamp |-> <<>>,
        text |-> <<"W", "e", " ", "d", "e", "c", "i", "d", "e", "d", " ", "t", "o", " ", "l", "a", "u", "n", "c", "h", " ", "n", "e", "x", "t", " ", "w", "e", "e", "k", ".">>],
       [speaker_id |-> <<"B">>, timestamp |-> <<>>,
        text |-> <<"J", "o", "h", "n", " ", "w", "i", "l", "l", " ", "f", "o", "l", "l", "o", "w", " ", "u", "p", " ", "b", "y", " ", "M", "a", "r", "c", "h", " ", "5", " ", "o", "n", " ", "t", "h", "e", " ", "b", "u", "d", "g", "e", "t", " ", "i", "s", "s", "u", "e", ".">>] >>

\* a meeting with decisions: repeated and capitalised ones, two in one
\* transcript, more than TOP_NOTES different ones
MINUTES ==
    << [speaker_id |-> <<"A">>, timestamp |-> <<>>,
        text |-> <<"w", "e", " ", "a", "g", "r", "e", "e", "d", " ", "a", ".">>],
       [speaker_id |-> <<"B">>, timestamp |-> <<>>,
        text |-> <<"A", "l", " ", "w", "i", "l", "l", " ", "f", "i", "x", " ", "b", " ", "b", "y", " ", "M", "a", "y", " ", "5", "!">>],
       [speaker_id |-> <<"A">>, timestamp |-> <<>>,
        text |-> <<"f", "i", "n", "a", "l", " ", "c", ".", " ", "a", "g", "r", "e", "e", "d", " ", "d", ".">>],
       [speaker_id |-> <<"B">>, timestamp |-> <<>>,
        text |-> <<"o", "k", ".">>],
       [speaker_id |-> <<"A">>, timestamp |-> <<>>,
        text |-> <<"t", "a", "s", "k", " ", "e", " ", "m", "u", "s", "t", " ", "g", "o">>],
       [speaker_id |-> <<"B">>, timestamp |-> <<>>,
        text |-> <<"A", "p", "p", "r", "o", "v", "e", "d", " ", "f", ".">>],
       [speaker_id |-> <<"A">>, timestamp |-> <<>>,
        text |-> <<"w", "e", " ", "s", "h", "o", "u", "l", "d", " ", "g", "o", " ", "g", "?">>],
       [speaker_id |-> <<"B">>, timestamp |-> <<>>,
        text |-> <<"a", "g", "r", "e", "e", "d", " ", "h", ".", " ", "t", "o", "d", "o", " ", "b", "y", " ", "A", "l">>],
       [speaker_id |-> <<"C">>, timestamp |-> <<>>,
        text |-> <<"w", "e", " ", "a", "g", "r", "e", "e", "d", " ", "a", ".">>],
       [speaker_id |-> <<"A">>, timestamp |-> <<>>,
        text |-> <<"d", "e", "n", "i", "e", "d", " ", "i">>],
       [speaker_id |-> <<"B">>, timestamp |-> <<>>,
        text |-> <<"r", "e", "s", "o", "l", "v", "e", "d", " ", "j", ".", " ", "k", "e", "y", " ", "r", "i", "s", "k", "!">>],
       [speaker_id |-> <<"C">>, timestamp |-> <<>>,
        text |-> <<"a", "c", "c", "e", "p", "t", "e", "d", " ", "k">>],
       [speaker_id |-> <<"A">>, timestamp |-> <<>>,
        text |-> <<"s", "e", "t", "t", "l", "e", "d", " ", "l">>],
       [speaker_id |-> <<"B">>, timestamp |-> <<>>,
        text |-> <<"r", "e", "j", "e", "c", "t", "e", "d", " ", "m">>],
       [speaker_id |-> <<"C">>, timestamp |-> <<>>,
        text |-> <<"d", "e", "t", "e", "r", "m", "i", "n", "e", "d", " ", "n">>],
       [speaker_id |-> <<"A">>, timestamp |-> <<>>,
        text |-> <<"c", "o", "n", "c", "l", "u", "d", "e", "d", " ", "o">>] >>

\* a meeting where every transcript has two or more kinds of action words
TASKS ==
    << [speaker_id |-> <<"A">>, timestamp |-> <<>>,
        text |-> <<"A", "l", " ", "w", "i", "l", "l", " ", "d", "o", " ", "p", " ", "b", "y", " ", "M", "a", "y", " ", "5">>],
       [speaker_id |-> <<"B">>, timestamp |-> <<>>,
        text |-> <<"t", "a", "s", "k", " ", "q", " ", "m", "u", "s", "t", " ", "g", "o">>],
       [speaker_id |-> <<"C">>, timestamp |-> <<>>,
        text |-> <<"t", "o", "d", "o", ":", " ", "B", "o", " ", "s", "h", "o", "u", "l", "d", " ", "f", "i", "x", " ", "r", " ", "b", "e", "f", "o", "r", "e", " ", "J", "u", "n", "e", " ", "1">>] >>

\* a meeting with blank transcripts
BLANKS ==
    << [speaker_id |-> <<"A">>, timestamp |-> <<>>,
        text |-> <<" ", " ">>],
       [speaker_id |-> <<"B">>, timestamp |-> <<>>,
        text |-> <<"a", " ", "b">>],
       [speaker_id |-> <<"C">>, timestamp |-> <<>>,
        text |-> <<>>],
       [speaker_id |-> <<"A">>, timestamp |-> <<>>,
        text |-> <<"c", "c">>],
       [speaker_id |-> <<"B">>, timestamp |-> <<>>,
        text |-> <<"d", "d", " ", "e">>] >>

\* a meeting of remarks: a keyword alone, one at the end, questions and
\* exclamations, and twenty words without a keyword
REMARKS ==
    << [speaker_id |-> <<"A">>, timestamp |-> <<>>,
        text |-> <<"f", "i", "x">>],
       [speaker_id |-> <<"B">>, timestamp |-> <<>>,
        text |-> <<"t", "h", "i", "s", " ", "i", "s", " ", "k", "e", "y">>],
       [speaker_id |-> <<"A">>, timestamp |-> <<>>,
        text |-> <<"a", "n", "y", " ", "r", "i", "s", "k", "?", " ", "n", "o", "t", "e", " ", "t", "h", "e", " ", "c", "o", "s", "t", "!">>],
       [speaker_id |-> <<"B">>, timestamp |-> <<>>,
        text |-> <<"a", " ", "b", " ", "c", " ", "d", " ", "e", " ", "f", " ", "g", " ", "h", " ", "i", " ", "j", " ", "k", " ", "l", " ", "m", " ", "n", " ", "o", " ", "p", " ", "q", " ", "r", " ", "s", " ", "t">>] >>

\* a meeting of long transcripts: one of more than a hundred characters
\* with a short first sentence, one whose first sentence has more than a
\* hundred characters, and a short one
LONGS ==
    << [speaker_id |-> <<"A">>, timestamp |-> <<>>,
        text |-> <<"B", "u", "d", "g", "e", "t", " ", "f", "i", "r", "s", "t", ".", " ", "t", "h", "e", "n", " ", "w", "e", " ", "t", "a", "l", "k", " ", "a", "b", "o", "u", "t", " ", "t", "h", "e", " ", "p", "l", "a", "n", " ", "a", "n", "d", " ", "t", "h", "e", "n", " ", "w", "e", " ", "t", "a", "l", "k", " ", "a", "b", "o", "u", "t", " ", "t", "h", "e", " ", "p", "l", "a", "n", " ", "a", "n", "d", " ", "t", "h", "e", "n", " ", "w", "e", " ", "t", "a", "l", "k", " ", "a", "b", "o", "u", "t", " ", "t", "h", "e", " ", "p", "l", "a", "n", " ", "a", "n", "d">>],
       [speaker_id |-> <<"B">>, timestamp |-> <<>>,
        text |-> <<"w", "e", " ", "w", "e", "n", "t", " ", "o", "v", "e", "r", " ", "t", "h", "e", " ", "p", "l", "a", "n", " ", "a", "n", "d", " ", "t", "h", "e", " ", "b", "u", "d", "g", "e", "t", " ", "a", "n", "d", " ", "t", "h", "e", " ", "r", "i", "s", "k", " ", "a", "n", "d", " ", "w", "e", " ", "w", "e", "n", "t", " ", "o", "v", "e", "r", " ", "t", "h", "e", " ", "p", "l", "a", "n", " ", "a", "n", "d", " ", "t", "h", "e", " ", "b", "u", "d", "g", "e", "t", " ", "a", "n", "d", " ", "t", "h", "e", " ", "r", "i", "s", "k", " ", "a", "n", "d">>],
       [speaker_id |-> <<"A">>, timestamp |-> <<>>,
        text |-> <<"o", "k", " ", "t", "h", "e", "n">>] >>

\* the meetings; a window of a round one goes on from its first transcript
\* after its last
CORPORA ==
    << [utterances |-> EXAMPLE, round |-> FALSE],
       [utterances |-> MINUTES, round |-> TRUE],
       [utterances |-> TASKS, round |-> TRUE],
       [utterances |-> BLANKS, round |-> FALSE],
       [utterances |-> REMARKS, round |-> FALSE],
       [utterances |-> LONGS, round |-> FALSE] >>

\* the transcripts of a window, as the STT service stores them, stamped with
\* their place in the window
window(w) ==
    LET utterances == CORPORA[w.corpus].utterances
        m == CHOOSE m \in Meetings : TRUE
    IN  [k \in 1..w.heard |->
            transcript_record(m,
                [utterances[((w.from + k - 2) % Len(utterances)) + 1]
                    EXCEPT !.timestamp = <<"t">> \o str(k)])]

is_window(args) == args.kind = "window"

\* a call that has not been made yet
listening(w) == [call |-> "none", args |-> w, ret |-> <<>>]

\* a window of a meeting, nothing heard yet
InitExtract ==
    /\ now = 0
    /\ ticks = 0
    /\ OPENAI_API_KEY = FALSE
    /\ broken = {}
    /\ quota = 0
    /\ records = <<>>
    /\ lists = [m \in Meetings |-> [keys |-> <<>>, expire_at |-> None]]
    /\ notes = [m \in Meetings |-> None]
    /\ runs = [r \in Runs |-> idle_run]
    /\ last_write = [m \in Meetings |-> None]
    /\ overtaken = {}
    /\ \E c \in 1..Len(CORPORA), from \in 1..MaxFrom :
          /\ from <= Len(CORPORA[c].utterances)
          /\ probe = listening([kind |-> "window", corpus |-> c, from |-> from,
                                heard |-> 0])

services_idle ==
    UNCHANGED << now, ticks, OPENAI_API_KEY, broken, quota, records, lists, notes, overtaken,
                 runs, last_write >>

\* one more transcript of the meeting
hear ==
    /\ is_window(probe.args)
    /\ probe.args.heard < MaxHeard
    /\ CORPORA[probe.args.corpus].round
          \/ probe.args.heard < Len(CORPORA[probe.args.corpus].utterances)
    /\ probe' = listening([kind |-> "window", corpus |-> probe.args.corpus,
                            from |-> probe.args.from,
                            heard |-> probe.args.heard + 1])
    /\ services_idle

call_extract_decisions ==
    /\ probe.call = "none"
    /\ is_window(probe.args)
    /\ probe' = [call |-> "extract_decisions", args |-> probe.args,
                 ret |-> extract_decisions(window(probe.args), FALSE)]
    /\ services_idle

call_extract_action_items ==
    /\ probe.call = "none"
    /\ is_window(probe.args)
    /\ probe' = [call |-> "extract_action_items", args |-> probe.args,
                 ret |-> extract_action_items(window(probe.args), FALSE)]
    /\ services_idle

call_extract_important_notes ==
    /\ probe.call = "none"
    /\ is_window(probe.args)
    /\ probe' = [call |-> "extract_important_notes", args |-> probe.args,
                 ret |-> extract_important_notes(window(probe.args), FALSE)]
    /\ services_idle

\* the values of num_themes the function is called with
THEME_COUNTS == {1, 2, NUM_THEMES}

\* extract_themes_from_transcripts on the window; cluster_labels is what
\* fit_predict returned, empty when it was not called
call_extract_themes ==
    /\ probe.call = "none"
    /\ is_window(probe.args)
    /\ probe.args.heard <= MaxClustered
    /\ \E num_themes \in THEME_COUNTS :
       \E cluster_labels \in cluster_labelings(window(probe.args), num_themes) :
          probe' = [call |-> "extract_themes_from_transcripts",
                    args |-> [kind |-> "window", corpus |-> probe.args.corpus,
                              from |-> probe.args.from, heard |-> probe.args.heard,
                              num_themes |-> num_themes,
                              cluster_labels |-> cluster_labels],
                    ret |-> extract_themes_from_transcripts(
                                window(probe.args), num_themes, cluster_labels, FALSE)]
    /\ services_idle

\* embeddings an embedding model may give: a long vector, two short ones
\* that point away from it, and the zero vector
EMBEDDINGS == {<< 2, 2 >>, << 0 - 1, 0 >>, << 0, 0 - 1 >>, << 0, 0 >>}

\* the body of the loop over the clusters, for a cluster of all the texts of
\* the window and any embeddings of them
call_theme_of_cluster ==
    /\ probe.call = "none"
    /\ is_window(probe.args)
    /\ LET texts == theme_texts(window(probe.args))
       IN  /\ Len(texts) \in 1..MaxMembers
           /\ probe.args.heard <= MaxMembers
           /\ \E embeddings \in [1..Len(texts) -> EMBEDDINGS] :
                 probe' = [call |-> "theme_of_cluster",
                           args |-> [kind |-> "window", corpus |-> probe.args.corpus,
                                     from |-> probe.args.from,
                                     heard |-> probe.args.heard,
                                     embeddings |-> embeddings],
                           ret |-> theme_of_cluster(texts, embeddings,
                                       [i \in 1..Len(texts) |-> i])]
    /\ services_idle

\* keywords of the patterns: "key", "follow up" of two words, "agree" that
\* another alternative begins with, and "fix"
KEYWORDS ==
    {important_patterns[1][4], important_patterns[3][5],
     important_patterns[4][4], important_patterns[6][3]}

\* what is put between a content and the keyword appended to it
SEPARATORS == {<<>>, <<" ">>}

\* the score of the last transcript heard, as the loop of
\* extract_important_notes computes it
call_importance_score ==
    /\ probe.call = "none"
    /\ is_window(probe.args)
    /\ probe.args.heard >= 1
    /\ LET content == lower(window(probe.args)[probe.args.heard].content)
       IN  /\ strip(content) # <<>>
           /\ probe' = [call |-> "importance_score",
                        args |-> [kind |-> "content", content |-> content,
                                  appended |-> 0, separator |-> <<>>],
                        ret |-> importance_score(content)]
    /\ services_idle

\* the score of the content with one more keyword at its end
append_keyword ==
    /\ probe.call = "importance_score"
    /\ probe.args.appended < MaxAppended
    /\ \E keyword \in KEYWORDS, separator \in SEPARATORS :
          LET content == probe.args.content \o separator \o keyword
          IN  probe' = [call |-> "importance_score",
                        args |-> [kind |-> "content", content |-> content,
                                  appended |-> probe.args.appended + 1,
                                  separator |-> separator],
                        ret |-> importance_score(content)]
    /\ services_idle

\* generate_basic_summary on the window, for the title of its meeting
call_generate_basic_summary ==
    /\ probe.call = "none"
    /\ is_window(probe.args)
    /\ probe' = [call |-> "generate_basic_summary", args |-> probe.args,
                 ret |-> generate_basic_summary(window(probe.args),
                             meeting_title_of(CHOOSE m \in Meetings : TRUE), FALSE)]
    /\ services_idle

NextExtract ==
    \/ call_generate_basic_summary
    \/ call_importance_score
    \/ append_keyword
    \/ call_extract_themes
    \/ call_theme_of_cluster
    \/ hear
    \/ call_extract_decisions
    \/ call_extract_action_items
    \/ call_extract_important_notes

SpecExtract == InitExtract /\ [][NextExtract]_vars

----------------------------------------------------------------------------
(* Claims *)

\* C1: a run that finds no stored segment for its meeting returns the
\* no-data result (no artifact), writes nothing to the artifact cache and
\* leaves whatever is cached as it was; no run goes on to summarise or
\* persist with zero segments
C1_EmptyMeetingNoWrite ==
    [][\A r \in Runs :
          /\ ("No transcripts found" \in runs'[r].log
              /\ "No transcripts found" \notin runs[r].log)
                => /\ runs'[r].pc = "done"
                   /\ runs'[r].result = None
                   /\ runs'[r].writes = 0
                   /\ notes' = notes
          /\ runs'[r].pc \in {"openai", "setex"} => runs'[r].transcripts # <<>>
          /\ (runs[r].pc \in {"queued", "get"} /\ runs'[r].pc = "done")
                => /\ runs'[r].result = None
                   /\ notes' = notes
      ]_vars

\* a run found the list expired and returned no data while an earlier
\* artifact is still cached
C1_Witness ==
    \E r \in Runs :
        /\ runs[r].pc = "done"
        /\ "No transcripts found" \in runs[r].log
        /\ runs[r].result = None
        /\ notes[runs[r].meeting_id[1]] # None

\* C2: a run writes the cache at most once: exactly once if and only if it
\* returns an artifact, not at all while it is under way or when it fails; and
\* whenever a value is put in the cache, it is the whole artifact that the
\* writing run returns in that same step
C2_AtMostOneWrite ==
    [][/\ \A r \in Runs :
             /\ runs'[r].writes <= 1
             /\ runs'[r].pc = "done" => (runs'[r].writes = 1 <=> runs'[r].result # None)
             /\ runs'[r].pc # "done" => runs'[r].writes = 0
       /\ \A m \in Meetings :
             (notes'[m] # notes[m] /\ notes'[m] # None) =>
                 \E r \in Runs :
                     /\ runs[r].pc = "setex"
                     /\ runs'[r].pc = "done"
                     /\ runs'[r].result = Some(json_loads(notes'[m][1].value))
                     /\ \A q \in Runs \ {r} : runs'[q] = runs[q]
      ]_vars

\* one run wrote once and returned its artifact, another failed and wrote nothing
C2_Witness ==
    \E r, q \in Runs :
        /\ runs[r].pc = "done" /\ runs[r].writes = 1 /\ runs[r].result # None
        /\ runs[q].pc = "done" /\ runs[q].writes = 0
        /\ "Error processing meeting notes" \in runs[q].log

\* C3: in the state a run returns its artifact in, GET /notes answers with
\* that same artifact; its transcript_count is the number of transcripts the
\* run loaded and its processed_at is not before the run started
C3_RoundTrip ==
    [][\A r \in Runs :
          (runs[r].pc = "setex" /\ runs'[r].pc = "done" /\ runs'[r].result # None) =>
              LET m == runs[r].meeting_id[1]
                  artifact == runs'[r].result[1]
              IN  /\ notes_response(m, redis_get(notes'[m])) =
                        [success |-> TRUE, meeting_id |-> m, notes |-> Some(artifact)]
                  /\ artifact.transcript_count = Len(runs[r].transcripts)
                  /\ artifact.meeting_id = m
                  /\ fromisoformat(artifact.processed_at) >= runs[r].started[1]
      ]_vars

\* a run over two transcripts has returned, some time after the clock
\* started, and GET /notes gives its artifact
C3_Witness ==
    \E r \in Runs :
        /\ runs[r].pc = "done"
        /\ runs[r].result # None
        /\ runs[r].result[1].transcript_count = 2
        /\ fromisoformat(runs[r].result[1].processed_at) > 0
        /\ notes_response(runs[r].meeting_id[1],
                          redis_get(notes[runs[r].meeting_id[1]])).notes = runs[r].result

\* C4: a cached artifact expires NOTES_TTL = 86400 seconds after the write
\* that put it there: while the clock advances within that window GET /notes
\* finds it, once the window has elapsed it is gone, and every write of a run
\* starts the window anew from its own time
C4_RetentionWindow ==
    [][\A m \in Meetings :
          /\ notes'[m] # None =>
                /\ last_write'[m] # None
                /\ notes'[m][1].expire_at = Some(last_write'[m][1].at + NOTES_TTL)
          /\ (\E r \in Runs : runs[r].pc = "setex" /\ runs'[r].pc = "done"
                              /\ runs'[r].result # None
                              /\ runs[r].meeting_id[1] = m)
                => /\ notes'[m] # None
                   /\ notes'[m][1].expire_at = Some(now + NOTES_TTL)
          /\ (notes[m] # None /\ now' # now) =>
                notes_response(m, redis_get(notes'[m])).success
                    = (now' < last_write[m][1].at + NOTES_TTL)
      ]_vars

\* the first window has elapsed, and the artifact of the re-run is still there
C4_Witness ==
    \E m \in Meetings :
        /\ notes[m] # None
        /\ now >= NOTES_TTL
        /\ last_write[m][1].at > 0
        /\ \A r \in Runs : runs[r].pc = "done" /\ runs[r].writes = 1

\* C5: whatever runs interleave, the cache of a meeting is empty or holds
\* exactly the artifact that one run assembled and returned, and that run is
\* the one whose write came last
C5_WholeArtifactLastWriter ==
    \A m \in Meetings :
        notes[m] # None =>
            /\ last_write[m] # None
            /\ runs[last_write[m][1].run].pc = "done"
            /\ runs[last_write[m][1].run].meeting_id = Some(m)
            /\ runs[last_write[m][1].run].result = Some(json_loads(notes[m][1].value))

\* two runs wrote different artifacts; the one stamped earlier wrote last,
\* and its artifact is the one cached
C5_Witness ==
    \E m \in Meetings, r, q \in Runs :
        /\ runs[r].pc = "done" /\ runs[r].result # None
        /\ runs[q].pc = "done" /\ runs[q].result # None
        /\ runs[r].result[1].summary # runs[q].result[1].summary
        /\ fromisoformat(runs[r].result[1].processed_at)
              < fromisoformat(runs[q].result[1].processed_at)
        /\ last_write[m] # None
        /\ last_write[m][1].run = r
        /\ redis_get(notes[m]) = Some(json_dumps(runs[r].result[1]))

\* C6, as the spec states it: every run that has loaded transcripts (it is
\* past the loading phase) ends with its artifact cached in place of the
\* prior one
C6_EverySegmentedRunEndsReady ==
    [][\A r \in Runs :
          (runs[r].pc \in {"openai", "setex"} /\ runs'[r].pc = "done") =>
              /\ runs'[r].result # None
              /\ redis_get(notes'[runs[r].meeting_id[1]])
                    = Some(json_dumps(runs'[r].result[1]))
      ]_vars

\* C6, amended: the cache of a meeting gets a value only by the write of a run
\* that returns that value; a run that has loaded transcripts ends either
\* with its artifact cached in place of the prior one, or with the failure
\* result and the cache untouched; and a cached artifact goes away only by
\* expiry or DELETE /notes
C6_LifecycleWithFailure ==
    [][/\ \A r \in Runs :
             (runs[r].pc \in {"openai", "setex"} /\ runs'[r].pc = "done") =>
                 \/ /\ runs'[r].result # None
                    /\ redis_get(notes'[runs[r].meeting_id[1]])
                          = Some(json_dumps(runs'[r].result[1]))
                 \/ /\ runs'[r].result = None
                    /\ "Error processing meeting notes" \in runs'[r].log
                    /\ notes' = notes
       /\ \A m \in Meetings :
             /\ (notes'[m] # notes[m] /\ notes'[m] # None) =>
                    \E r \in Runs :
                        /\ runs[r].pc = "setex"
                        /\ runs'[r].pc = "done"
                        /\ runs'[r].result = Some(json_loads(notes'[m][1].value))
             /\ (notes[m] # None /\ notes'[m] = None) =>
                    /\ runs' = runs
                    /\ \/ now' >= notes[m][1].expire_at[1]
                       \/ now' = now
      ]_vars

\* a run that had its summary (the call to the generative capability had
\* failed) ended with the failure result, and the meeting has no artifact
C6_Witness ==
    \E r \in Runs :
        /\ runs[r].pc = "done"
        /\ runs[r].result = None
        /\ "Error generating OpenAI summary" \in runs[r].log
        /\ notes[runs[r].meeting_id[1]] = None

\* C7, as the spec states it: the transcripts a run has loaded are in the
\* order they were stored, the earliest stored first
C7_InsertionOrder ==
    \A r \in Runs :
        LET ts == runs[r].transcripts
            stored_as(t) == CHOOSE u \in 1..Len(UTTERANCES) :
                                transcript_record(t.meeting_id, UTTERANCES[u]) = t
        IN  \A i, j \in 1..Len(ts) : i < j => stored_as(ts[i]) < stored_as(ts[j])

\* C8: with a stage that raises, the artifact a run is about to write has the
\* empty list for that stage and, for every other stage, what the stage gives
\* when nothing raises; such a run ends without an artifact only when a Redis
\* call fails
C8_StageFailureIsLocal ==
    \A r \in Runs :
        /\ runs[r].pc = "setex" =>
              \E cluster_labels \in theme_labelings(runs[r].transcripts) :
                  LET healthy == EXTRACTED[<<runs[r].transcripts, {}, cluster_labels>>]
                      got == runs[r].notes_data[1]
                      stage(name, mine, theirs) ==
                          mine = IF name \in broken THEN <<>> ELSE theirs
                  IN  /\ stage("extracting themes", got.themes, healthy.themes)
                      /\ stage("extracting important notes", got.important_notes,
                               healthy.important_notes)
                      /\ stage("extracting decisions", got.decisions, healthy.decisions)
                      /\ stage("extracting action items", got.action_items,
                               healthy.action_items)
        /\ (runs[r].pc = "done" /\ runs[r].result = None) =>
              runs[r].log \cap {"No transcripts found",
                                "Error processing meeting notes"} # {}
        /\ runs[r].pc \in {"openai", "setex", "done"} =>
              extract_log(broken) \subseteq runs[r].log
                 \/ runs[r].log \cap {"No transcripts found",
                                      "Error processing meeting notes"} # {}

\* the decision stage raised; the run wrote an artifact with no decisions and
\* with the important notes and action items of the other stages
C8_Witness ==
    \E r \in Runs :
        /\ runs[r].pc = "done"
        /\ runs[r].writes = 1
        /\ "Error extracting decisions" \in runs[r].log
        /\ runs[r].result[1].decisions = <<>>
        /\ runs[r].result[1].important_notes # <<>>
        /\ runs[r].result[1].action_items # <<>>
        /\ runs[r].result[1].themes # <<>>

\* C9: the summary of the artifact a run is about to write is the fallback
\* summary when the key is not configured or the call failed, and the fixed
\* sentence when building the fallback raised; for no transcripts at all the
\* summarizer gives the fallback whatever the call would have answered
C9_SummarizerFallsBack ==
    /\ \A r \in Runs :
          (runs[r].pc = "setex"
           /\ (~OPENAI_API_KEY \/ "Error generating OpenAI summary" \in runs[r].log)) =>
              LET title == meeting_title_of(runs[r].meeting_id[1])
              IN  runs[r].notes_data[1].summary =
                      IF "generating basic summary" \in broken
                      THEN TXT_OPEN \o title \o TXT_COMPLETED
                      ELSE generate_basic_summary(runs[r].transcripts, title, FALSE)
    /\ \A m \in Meetings, resp \in OPENAI_RESPONSES :
          generate_summary_with_openai(<<>>, meeting_title_of(m), OPENAI_API_KEY, resp,
                                       "generating basic summary" \in broken)
              = TXT_OPEN \o meeting_title_of(m) \o TXT_NO_CONTENT
    /\ \A r \in Runs :
          "Error generating OpenAI summary" \in runs[r].log
              => runs[r].pc \in {"setex", "done"}

\* the call failed and building the fallback raised; the run wrote an
\* artifact whose summary is the fixed sentence
C9_Witness ==
    \E r \in Runs :
        /\ runs[r].pc = "done"
        /\ runs[r].writes = 1
        /\ {"Error generating OpenAI summary", "Error generating basic summary"}
              \subseteq runs[r].log
        /\ runs[r].result[1].summary =
              TXT_OPEN \o meeting_title_of(runs[r].meeting_id[1]) \o TXT_COMPLETED

\* C10, as the spec states it: when the write of a run fails, the cache entry
\* of the meeting is what it was when the run started
C10_EntryAsBeforeTheRun ==
    [][\A r \in Runs :
          (runs[r].pc = "setex" /\ runs'[r].pc = "done" /\ runs'[r].result = None) =>
              Some(notes'[runs[r].meeting_id[1]]) = runs[r].seen
      ]_vars

\* C10, amended: when the write of a run fails, the run returns the failure
\* result and the cache entry of the meeting is what it was just before the
\* failed write; and a run that is past its write attempt without having
\* written has no artifact to return
C10_FailedWriteLeavesEntry ==
    [][\A r \in Runs :
          /\ (runs[r].pc = "setex" /\ runs'[r].pc = "done" /\ runs'[r].writes = 0) =>
                /\ runs'[r].result = None
                /\ "Error processing meeting notes" \in runs'[r].log
                /\ notes' = notes
          /\ (runs[r].pc = "setex" /\ runs'[r].pc = "done") =>
                (runs'[r].result = None <=> notes' = notes /\ runs'[r].writes = 0)
      ]_vars

\* the write of a run failed while the artifact of another run is cached
C10_Witness ==
    \E r \in Runs :
        /\ runs[r].pc = "done"
        /\ runs[r].result = None
        /\ "Error generating OpenAI summary" \in runs[r].log
        /\ notes[runs[r].meeting_id[1]] # None
        /\ last_write[runs[r].meeting_id[1]][1].run # r

\* C11: POST /process-notes answers success for the meeting it is asked for,
\* in the step that queues the run and before the run has taken any step,
\* whether or not the meeting has transcripts; nothing the run does later,
\* a failure included, changes that answer
C11_AlwaysAccepted ==
    [][\A r \in Runs :
          /\ (runs[r].pc = "idle" /\ runs'[r].pc # "idle") =>
                /\ runs'[r].pc = "queued"
                /\ runs'[r].result = None
                /\ runs'[r].log = {}
                /\ \E m \in Meetings :
                      /\ runs'[r].meeting_id = Some(m)
                      /\ runs'[r].response = Some([success |-> TRUE, meeting_id |-> m])
          /\ runs[r].pc # "idle" => runs'[r].response = runs[r].response
      ]_vars

\* accepted requests whose runs found no transcripts, and failed
C11_Witness ==
    \E r, q \in Runs :
        /\ runs[r].pc = "done" /\ "No transcripts found" \in runs[r].log
        /\ runs[r].response[1].success
        /\ runs[q].pc = "done" /\ "Error processing meeting notes" \in runs[q].log
        /\ runs[q].response[1].success

\* C12: the decisions returned are the first TOP_NOTES = 10 of the candidates
\* that are the first of their title, in the order the candidates were met;
\* so the titles returned are pairwise different
C12_FirstOfEachTitle ==
    probe.call = "extract_decisions" =>
        LET candidates == decision_candidates(window(probe.args))
            firsts == {i \in 1..Len(candidates) :
                          \A j \in 1..(i - 1) : candidates[j].title # candidates[i].title}
            nth(k) == CHOOSE i \in firsts : Cardinality({j \in firsts : j < i}) = k - 1
            n == IF Cardinality(firsts) < 10 THEN Cardinality(firsts) ELSE 10
        IN  /\ Len(probe.ret) = n
            /\ \A k \in 1..n : probe.ret[k] = candidates[nth(k)]
            /\ \A a, b \in 1..n : a # b => probe.ret[a].title # probe.ret[b].title

\* more than ten titles among the candidates, one of them met in two
\* transcripts; ten decisions are returned
C12_Witness ==
    /\ probe.call = "extract_decisions"
    /\ Len(probe.ret) = 10
    /\ LET candidates == decision_candidates(window(probe.args))
       IN  /\ Cardinality({candidates[i].title : i \in 1..Len(candidates)}) > 10
           /\ \E i, j \in 1..Len(candidates) :
                 /\ i < j
                 /\ candidates[i].title = candidates[j].title
                 /\ candidates[i].timestamp # candidates[j].timestamp
                 /\ \E k \in 1..Len(probe.ret) : probe.ret[k] = candidates[i]

\* C13, as the spec states it: for the two transcripts of the example the
\* decisions are exactly one, and its title starts with "We decided to launch
\* next week"
C13_ExampleDecision ==
    (probe.call = "extract_decisions" /\ probe.args.corpus = 1
     /\ probe.args.from = 1 /\ probe.args.heard = 2) =>
        /\ Len(probe.ret) = 1
        /\ LET start == prefix(EXAMPLE[1].text, Len(EXAMPLE[1].text) - 1)
           IN  prefix(probe.ret[1].title, Len(start)) = start

\* C14: for the two transcripts of the example the action items are exactly
\* one, made from the second transcript, assigned by name to "John" and due
\* "March 5"
C14_ExampleActionItem ==
    (probe.call = "extract_action_items" /\ probe.args.corpus = 1
     /\ probe.args.from = 1 /\ probe.args.heard = 2) =>
        /\ Len(probe.ret) = 1
        /\ probe.ret[1].description = EXAMPLE[2].text
        /\ probe.ret[1].assigned_to_name = Some(<<"J", "o", "h", "n">>)
        /\ probe.ret[1].assigned_to_speaker_id = None
        /\ probe.ret[1].due_date = Some(<<"M", "a", "r", "c", "h", " ", "5">>)

\* the action items of the example have been extracted
C14_Witness ==
    /\ probe.call = "extract_action_items"
    /\ probe.args.corpus = 1 /\ probe.args.from = 1 /\ probe.args.heard = 2
    /\ window(probe.args)[1].content = EXAMPLE[1].text
    /\ window(probe.args)[2].content = EXAMPLE[2].text
    /\ Len(probe.ret) = 1

\* C15, as the spec states it: the action items are those of the transcripts
\* that match two or more of the five action patterns, one for every such
\* transcript and none for any other
C15_TwoKindsAlwaysAnItem ==
    probe.call = "extract_action_items" =>
        LET ts == window(probe.args)
            kinds(i) == Cardinality({k \in 1..Len(action_patterns) :
                                        re_search(action_patterns[k], ts[i].content)})
            two == SelectSeq([i \in 1..Len(ts) |-> i], LAMBDA i : kinds(i) >= 2)
        IN  /\ Len(probe.ret) = Len(two)
            /\ \A k \in 1..Len(two) : probe.ret[k].description = ts[two[k]].content

\* C15, amended: the action items are those of the first 15 transcripts that
\* match two or more of the five action patterns, in the order of the
\* transcripts; a transcript that matches one pattern or none gives no item,
\* and neither does a transcript after the fifteenth that gives one
C15_TwoKindsUpToFifteen ==
    probe.call = "extract_action_items" =>
        LET ts == window(probe.args)
            kinds(i) == Cardinality({k \in 1..Len(action_patterns) :
                                        re_search(action_patterns[k], ts[i].content)})
            two == SelectSeq([i \in 1..Len(ts) |-> i], LAMBDA i : kinds(i) >= 2)
            n == IF Len(two) < 15 THEN Len(two) ELSE 15
        IN  /\ Len(probe.ret) = n
            /\ \A k \in 1..n : probe.ret[k].description = ts[two[k]].content

\* sixteen transcripts with two kinds of action words each, fifteen items
C15_Witness ==
    /\ probe.call = "extract_action_items"
    /\ Len(probe.ret) = 15
    /\ LET ts == window(probe.args)
       IN  /\ Len(ts) = 16
           /\ \A i \in 1..Len(ts) : action_score(ts[i].content) >= 2

\* C16: theme extraction returns no themes, and does not call the clusterer,
\* when fewer than two transcripts have content that is not blank, and when
\* min(num_themes, number of such transcripts) is below two
C16_NoThemesBelowTwo ==
    probe.call = "extract_themes_from_transcripts" =>
        LET ts == window(probe.args)
            text_count == Cardinality({i \in 1..Len(ts) : strip(ts[i].content) # <<>>})
            effective == IF probe.args.num_themes < text_count
                         THEN probe.args.num_themes ELSE text_count
        IN  (text_count < 2 \/ effective < 2) =>
                /\ probe.ret = <<>>
                /\ probe.args.cluster_labels = <<>>

\* two texts and one theme asked for: no themes, no clustering
C16_Witness ==
    /\ probe.call = "extract_themes_from_transcripts"
    /\ Len(theme_texts(window(probe.args))) >= 2
    /\ probe.args.num_themes = 1
    /\ probe.ret = <<>>

\* C17: the themes are in order of confidence, highest first: of two adjacent
\* themes the earlier has a confidence at least that of the later
C17_ThemesByConfidence ==
    probe.call = "extract_themes_from_transcripts" =>
        \A i \in 1..(Len(probe.ret) - 1) :
            probe.ret[i].confidence >= probe.ret[i + 1].confidence

\* two themes of different confidence, the second cluster's theme first
C17_Witness ==
    /\ probe.call = "extract_themes_from_transcripts"
    /\ Len(probe.ret) = 2
    /\ probe.ret[1].confidence > probe.ret[2].confidence
    /\ probe.args.cluster_labels = << 0, 0, 1 >>
    /\ Len(probe.ret[1].sample_texts) = 1

\* C18, as the spec states it: for any embeddings of the members of a
\* cluster the confidence of its theme, the mean cosine similarity of the
\* members to their centroid, is between 0 and 1.  The confidence here is in
\* units of 1/SCALE with the similarities and their mean both rounded down,
\* so it is below the exact one by less than two units: an exact confidence
\* of 0 or more is one above -2 here
C18_ConfidenceInUnitInterval ==
    probe.call = "theme_of_cluster" =>
        /\ probe.ret.confidence > 0 - 2
        /\ probe.ret.confidence <= SCALE

C20_TopTenNotes ==
    probe.call = "extract_important_notes" =>
        LET ts == window(probe.args)
            score(i) == IF strip(ts[i].content) = <<>> THEN 0
                        ELSE importance_score(lower(ts[i].content))
            taken == {i \in 1..Len(ts) :
                        \E k \in 1..Len(probe.ret) :
                            probe.ret[k].timestamp = ts[i].timestamp}
        IN  /\ \A k \in 1..Len(probe.ret) :
                  \E i \in 1..Len(ts) :
                      /\ probe.ret[k].timestamp = ts[i].timestamp
                      /\ probe.ret[k].content = ts[i].content
                      /\ probe.ret[k].importance = score(i)
                      /\ score(i) >= 1
            /\ Len(probe.ret) <= 10
            /\ \A k \in 1..(Len(probe.ret) - 1) :
                  probe.ret[k].importance >= probe.ret[k + 1].importance
            /\ \A i \in (1..Len(ts)) \ taken : \A j \in taken : score(i) <= score(j)

\* twelve transcripts with a score, some without, ten notes of two scores
C20_Witness ==
    /\ probe.call = "extract_important_notes"
    /\ Len(probe.ret) = 10
    /\ probe.ret[1].importance > probe.ret[10].importance
    /\ LET ts == window(probe.args)
       IN  /\ Cardinality({i \in 1..Len(ts) :
                              importance_score(lower(ts[i].content)) >= 1}) = 12
           /\ \E i \in 1..Len(ts) : importance_score(lower(ts[i].content)) = 0

\* C21, as the spec states it: a match of a decision pattern gives a decision
\* whatever its letter case.  So, unless the ten decisions are full, every
\* transcript with a match of a decision pattern has one of its sentences as
\* the title of a decision returned
C21_MatchOfAnyCase ==
    (probe.call = "extract_decisions" /\ Len(probe.ret) < 10) =>
        LET ts == window(probe.args)
            matched(i) == /\ strip(ts[i].content) # <<>>
                          /\ \E k \in 1..Len(decision_patterns) :
                                re_search(decision_patterns[k], ts[i].content)
            titles(i) == LET sentences == split(ts[i].content, ".")
                         IN  {title_of(strip(sentences[s]), sentences[s]) :
                                 s \in 1..Len(sentences)}
        IN  \A i \in 1..Len(ts) :
                matched(i) => \E k \in 1..Len(probe.ret) : probe.ret[k].title \in titles(i)

\* C22, as the spec states it: in the fallback summary of more than three
\* transcripts the first three and the last three have no transcript in
\* common; of three or fewer there are no last ones and the summary has no
\* closing clause
C22_OpeningAndClosingApart ==
    probe.call = "generate_basic_summary" =>
        LET ts == window(probe.args)
            first_segments == prefix(ts, 3)
            last_segments == last_segments_of(ts)
            opening == {first_segments[i] : i \in 1..Len(first_segments)}
            closing == {last_segments[i] : i \in 1..Len(last_segments)}
        IN  /\ Len(ts) > 3 => opening \cap closing = {}
            /\ Len(ts) <= 3 => closing = {} /\ ~contains(probe.ret, TXT_CONCLUDED)

\* C23, as the spec states it: a fallback summary with a closing clause ends
\* with the previews of the last two transcripts, the one before the last
\* and the last, each the first 50 characters of the content and "..."
C23_ClosingIsTheLastTwo ==
    (probe.call = "generate_basic_summary" /\ contains(probe.ret, TXT_CONCLUDED)) =>
        LET ts == window(probe.args)
            n == Len(ts)
            closing == TXT_CONCLUDED
                       \o prefix(ts[n - 1].content, 50) \o <<".", ".", ".">>
                       \o <<" ">>
                       \o prefix(ts[n].content, 50) \o <<".", ".", ".">>
        IN  /\ n >= 2
            /\ Len(probe.ret) >= Len(closing)
            /\ SubSeq(probe.ret, Len(probe.ret) - Len(closing) + 1, Len(probe.ret)) = closing

\* C24, as the spec states it: the title of a theme is the first sentence of
\* one of the texts of its cluster, the text before the first ".", cut to 100
\* characters, with "..." after it exactly when that sentence has more than
\* 100 characters
C24_EllipsisWhenCut ==
    LET texts == theme_texts(window(probe.args))
        stated(text) ==
            LET sentence == split(text, ".")[1]
            IN  prefix(sentence, 100)
                \o (IF Len(sentence) > 100 THEN <<".", ".", ".">> ELSE <<>>)
        titles == {stated(texts[i]) : i \in 1..Len(texts)}
    IN  /\ probe.call = "theme_of_cluster" => probe.ret.title \in titles
        /\ probe.call = "extract_themes_from_transcripts" =>
              \A k \in 1..Len(probe.ret) : probe.ret[k].title \in titles

\* C25: the action items are made from the qualifying transcripts, those that
\* are not blank and have an action score of two or more, in the order of the
\* transcripts and never re-sorted; when more than 15 qualify the items are
\* those of the first 15 and the later ones are dropped
C25_FirstFifteenInOrder ==
    probe.call = "extract_action_items" =>
        LET ts == window(probe.args)
            qualifying == SelectSeq(ts, LAMBDA t : /\ strip(t.content) # <<>>
                                                   /\ action_score(t.content) >= 2)
            kept == SubSeq(qualifying, 1, IF Len(qualifying) > 15 THEN 15
                                          ELSE Len(qualifying))
        IN  /\ [k \in 1..Len(probe.ret) |-> probe.ret[k].description]
                  = [k \in 1..Len(kept) |-> kept[k].content]
            /\ \A k \in 1..Len(probe.ret) :
                  probe.ret[k].assigned_to_speaker_id \in {None, Some(kept[k].speaker_id)}

\* seventeen transcripts that all qualify: fifteen items, the first of the
\* first transcript, the last two transcripts without an item
C25_Witness ==
    /\ probe.call = "extract_action_items"
    /\ probe.args.heard = 17
    /\ Len(probe.ret) = 15
    /\ LET ts == window(probe.args)
       IN  /\ \A i \in 1..Len(ts) : action_score(ts[i].content) >= 2
           /\ probe.ret[1].description = ts[1].content
           /\ probe.ret[1].description # probe.ret[2].description

\* C26: in every action item either a name is given and the speaker field is
\* empty, or no name is given and the speaker field holds the speaker_id of
\* the transcript the item was made from; never both
C26_NameOrSpeaker ==
    probe.call = "extract_action_items" =>
        LET ts == window(probe.args)
        IN  \A k \in 1..Len(probe.ret) :
                LET item == probe.ret[k]
                    speakers == {Some(ts[i].speaker_id) :
                                    i \in {j \in 1..Len(ts) : ts[j].content = item.description}}
                IN  /\ ~(item.assigned_to_name # None /\ item.assigned_to_speaker_id # None)
                    /\ item.assigned_to_name # None => item.assigned_to_speaker_id = None
                    /\ item.assigned_to_name = None => item.assigned_to_speaker_id \in speakers

\* items of both kinds in one result: one with a name, one with the speaker
C26_Witness ==
    /\ probe.call = "extract_action_items"
    /\ \E a, b \in 1..Len(probe.ret) :
          /\ probe.ret[a].assigned_to_name # None
          /\ probe.ret[a].assigned_to_speaker_id = None
          /\ probe.ret[b].assigned_to_name = None
          /\ probe.ret[b].assigned_to_speaker_id # None

\* C27, as the spec states it: while transcripts are only added (none has
\* expired: the clock has not moved) and runs overlap, a write of the cache
\* never replaces an artifact by one with a smaller transcript_count
C27_CountNeverDecreases ==
    [][\A m \in Meetings :
          (ticks' = 0 /\ notes[m] # None /\ notes'[m] # None) =>
              json_loads(notes'[m][1].value).transcript_count
                  >= json_loads(notes[m][1].value).transcript_count
      ]_vars

\* C28, as the spec states it: a run that was triggered before a delete took
\* its meeting's artifact out of the cache does not bring an artifact back:
\* while the cache is still empty after the delete (nothing has expired: the
\* clock has not moved) the write of such a run leaves it empty
C28_NoArtifactBack ==
    [][\A r \in Runs :
          (/\ ticks' = 0
           /\ r \in overtaken
           /\ runs[r].pc = "setex" /\ runs'[r].pc = "done"
           /\ notes[runs[r].meeting_id[1]] = None)
              => notes'[runs[r].meeting_id[1]] = None
      ]_vars

============================================================================
